---- MODULE Spec2Model ----
(***************************************************************************)
(* A model of the document cache-and-index synchronisation engine of       *)
(* mkviewer (src/app.py): the LRU document cache keyed by ETag, the        *)
(* get_document reader workflow on top of it, the cache handlers of the    *)
(* UI, and the Elasticsearch reconciler sync_elasticsearch.                *)
(***************************************************************************)
EXTENDS Integers, Sequences, FiniteSets, TLC

VARIABLES
    od,        \* DOC_CACHE.od: <<key, value>> pairs, least recently used first
    store,     \* the object store: key -> the bytes it holds, or NoObject
    listing,   \* TREE_DOCS: the last listing taken, key -> etag (or NotListed)
    writes,    \* how many times the store was written
    th,        \* per caller: the position in its handler and its locals
    done,      \* per caller: the outcome of its last finished handler
    calls,     \* how many handlers were started
    conv,      \* per key: conversions since the store last changed its etag
    recency,   \* history: every pair set since the last clear, by last access
    last,      \* history: the last LRU operation, its arguments and result
    ES_ENABLED,\* whether an Elasticsearch backend is configured
    index,     \* the search index: id -> the record indexed, or NoRecord
    sy,        \* the sync_elasticsearch run: its position, locals and outcome
    runs,      \* how many sync runs were started
    sh,        \* the _es_search_request call: its position, locals and outcome
    tp,        \* the last request _CompatTransport.perform_request handled
    bt,        \* the last build_tree call: its arguments and the tree it made
    mc,        \* connect's globals: _client, _active_ep, and their history
    cn,        \* per caller: the position in connect, its locals and outcome
    cv,        \* the conversion of one byte string: its input and outcome
    rw,        \* the rewrite of one image reference: its input and outcome
    fs,        \* the last fulltext_search call: its query and outcome
    ec,        \* _es_client: "none", or the client kept and whether
               \* ensure_es_index completed for it ("ensured", "unensured")
    om         \* the message of one run's outcome: its input and the message

envVars == <<store, listing, writes>>
thrVars == <<th, done, calls, conv>>
lruHist == <<recency, last>>
syncVars == <<ES_ENABLED, index, sy, runs>>
miscVars == <<cv, rw, fs, ec, om>>
libVars == <<sh, tp, bt, mc, cn, miscVars>>
vars == <<od, envVars, thrVars, lruHist, syncVars, libVars>>

\* ------------------------------------------------------------------ bounds

\* LRU(capacity): the capacity of the modelled cache (DOC_CACHE uses 512).
Capacity == 2
\* How many times the object store may be written by the outside world.
MaxWrites == 1
\* How many handler invocations one behaviour of the threaded model holds.
MaxCalls == 3
\* How many sync runs one behaviour holds.
MaxRuns == 2
\* How many connect calls one behaviour of the connection model holds.
MaxConnects == 3

\* ------------------------------------------------------------- the values

\* Python's None, where a tuple or an etag may stand; and where a key or an
\* error name may stand.
None == <<"None">>
NoKey == "None"

\* Storage keys: one per recognised document type, two of them with an
\* extension in capitals, and one that no document type accepts.
Keys == {"a.MD", "b.Docx", "c.doc"}
BadKeys == {"x.txt"}

\* os.path.splitext(key)[1]: the extension as the key spells it.
Splitext(key) ==
    CASE key = "a.MD"   -> ".MD"
      [] key = "b.Docx" -> ".Docx"
      [] key = "c.doc"  -> ".doc"
      [] key = "x.txt"  -> ".txt"

\* Mutant of Lower: the extension is looked up as it is spelled.
Lower_AsSpelled(ext) == ext

\* str.lower() on the extensions of the model.
Lower(ext) ==
    CASE ext = ".MD"   -> ".md"
      [] ext = ".Docx" -> ".docx"
      [] OTHER         -> ext

\* ext = os.path.splitext(key)[1].lower()
Ext(key) == Lower(Splitext(key))

\* SUPPORTED_EXTS.get(ext)
SUPPORTED_EXTS(ext) ==
    CASE ext = ".md"       -> "markdown"
      [] ext = ".markdown" -> "markdown"
      [] ext = ".docx"     -> "docx"
      [] ext = ".doc"      -> "doc"
      [] OTHER             -> NoKey

\* doc_type = SUPPORTED_EXTS.get(os.path.splitext(key)[1].lower())
DocType(key) == SUPPORTED_EXTS(Ext(key))

\* encodings = ("utf-8", "gbk", "gb2312", "latin-1")
Encodings == <<"utf-8", "gbk", "gb2312", "latin-1">>

\* A decoded text, as runs <<class, length>> of characters of one class:
\* "p" visible characters and the space, "w" newline and tab, "u" white space
\* that is not printable (a no-break space), "r" carriage returns, "0" NUL
\* characters, "c" other unprintable characters.
\* Undecodable stands for the UnicodeDecodeError of the encoding.
Undecodable == << <<"undecodable", 0>> >>
ReadableText == << <<"p", 10>> >>
ControlText == << <<"c", 10>> >>

\* What each encoding makes of bytes that are text, and of bytes that are not
\* (latin-1 decodes every byte string).
Readable == [enc \in {"utf-8", "gbk", "gb2312", "latin-1"} |-> ReadableText]
Unreadable ==
    [enc \in {"utf-8", "gbk", "gb2312", "latin-1"} |->
        IF enc = "latin-1" THEN ControlText ELSE Undecodable]

\* The byte strings an object may hold, by the properties the converters
\* read: pk = starts with b"PK"; docx = mammoth parses it; legacy = what
\* textract.process does on it ("missing": textract is not installed);
\* dec = the text each encoding decodes them to; blank = the text the handlers yield is empty or whitespace.
Contents ==
    { [id |-> 1, pk |-> FALSE, docx |-> FALSE, legacy |-> "ok",    dec |-> Readable,   blank |-> FALSE],
      [id |-> 2, pk |-> TRUE,  docx |-> TRUE,  legacy |-> "shell", dec |-> Unreadable, blank |-> FALSE],
      [id |-> 3, pk |-> TRUE,  docx |-> FALSE, legacy |-> "other", dec |-> Unreadable, blank |-> FALSE],
      [id |-> 4, pk |-> FALSE, docx |-> TRUE,  legacy |-> "ok",    dec |-> Readable,   blank |-> TRUE] }

\* What the store holds for a key that has no object.
NoObject ==
    [id |-> 0, pk |-> FALSE, docx |-> FALSE, legacy |-> "other", dec |-> Unreadable, blank |-> FALSE]

\* What a listing holds for a key it does not name.
NotListed == <<"NotListed">>

\* The ETag the object store reports for an object holding these bytes.
ETagOf(data) == <<"etag", data.id>>

\* ---------------------------------------------------- OrderedDict (od)
\* self.od is a sequence of <<key, value>> pairs, least recently used first.

OdKeys(d) == {d[i][1] : i \in DOMAIN d}

\* k in self.od
OdContains(d, k) == k \in OdKeys(d)

OdIndex(d, k) == CHOOSE i \in DOMAIN d : d[i][1] = k

\* self.od[k]
OdGetItem(d, k) == d[OdIndex(d, k)][2]

\* self.od[k] = v : an existing key keeps its position, a new one is appended.
OdSetItem(d, k, v) ==
    IF OdContains(d, k) THEN [d EXCEPT ![OdIndex(d, k)] = <<k, v>>]
    ELSE Append(d, <<k, v>>)

OdRemove(d, k) == SelectSeq(d, LAMBDA p : p[1] # k)

\* self.od.move_to_end(k), for a key that is present.
OdMoveToEnd(d, k) == Append(OdRemove(d, k), <<k, OdGetItem(d, k)>>)

\* Mutant of OdPopFirst: popitem() with its default last=True, which drops
\* the newest entry.
OdPopLast(d) == SubSeq(d, 1, Len(d) - 1)

\* self.od.popitem(last=False), for a dict that is not empty.
OdPopFirst(d) == Tail(d)

\* ------------------------------------------------------------------ LRU

\* Mutant of LRU_get: a hit returns the value without move_to_end.
LRU_get_NoPromotion(d, k) ==
    IF OdContains(d, k) THEN [od |-> d, ret |-> OdGetItem(d, k)]
    ELSE [od |-> d, ret |-> None]

\* LRU.get as one uninterrupted call: [od |-> the dict after, ret |-> result].
LRU_get(d, k) ==
    IF OdContains(d, k)
    THEN [od |-> OdMoveToEnd(d, k), ret |-> OdGetItem(d, k)]
    ELSE [od |-> d, ret |-> None]

\* The eviction test of LRU.set: len(self.od) > self.cap
LRU_over(d) == Len(d) > Capacity

\* Mutant of LRU_set: the assignment without move_to_end, so that a key
\* that is present keeps its place in the order.
LRU_set_NoMoveToEnd(d, k, v) ==
    LET assigned == OdSetItem(d, k, v)
    IN  IF LRU_over(assigned) THEN OdPopFirst(assigned) ELSE assigned

\* LRU.set as one uninterrupted call: the dict after.
LRU_set(d, k, v) ==
    LET moved == OdMoveToEnd(OdSetItem(d, k, v), k)
    IN  IF LRU_over(moved) THEN OdPopFirst(moved) ELSE moved

\* LRU.clear
LRU_clear(d) == << >>

\* ------------------------------------------------------- the cache entry

\* What the converters make of the bytes: the text, the preview and the
\* table of contents are functions of the bytes and the document type.
TextOf(data) == <<"text", data.id, data.blank>>
MarkdownHtml(data) == <<"markdown-body", data.id>>
DocxHtml(data) == <<"docx-preview", data.id>>
TocOf(data) == <<"toc", data.id>>

\* The values the cache is made to hold in the LRU-only specification:
\* (etag, doc_type, text, html, toc) tuples of the documents.
EntryOf(key, data) ==
    <<ETagOf(data), DocType(key), TextOf(data), MarkdownHtml(data), TocOf(data)>>

LRUValues(key) == {EntryOf(key, data) : data \in {c \in Contents : c.id <= 2}}

\* ---------------------------------------- the LRU alone: set, get, clear

NoOp == [op |-> "none", k |-> NoKey, v |-> None, before |-> << >>, ret |-> None]

\* History: the pair <<k, v>> becomes the most recently accessed one.
Touch(r, k, v) == Append(SelectSeq(r, LAMBDA p : p[1] # k), <<k, v>>)

\* The last n elements of a sequence.
LastN(s, n) == SubSeq(s, Len(s) - n + 1, Len(s))

Min(a, b) == IF a < b THEN a ELSE b

\* The variables the LRU-only specification leaves alone.
NotLRU == <<envVars, thrVars, syncVars, libVars>>

\* DOC_CACHE.set(k, v)
LRUSet(k, v) ==
    /\ od' = LRU_set(od, k, v)
    /\ recency' = Touch(recency, k, v)
    /\ last' = [op |-> "set", k |-> k, v |-> v, before |-> od, ret |-> None]
    /\ UNCHANGED NotLRU

\* DOC_CACHE.get(k): a hit is an access, a miss is not.
LRUGet(k) ==
    /\ od' = LRU_get(od, k).od
    /\ recency' = IF OdContains(od, k) THEN Touch(recency, k, OdGetItem(od, k))
                  ELSE recency
    /\ last' = [op |-> "get", k |-> k, v |-> None, before |-> od,
                ret |-> LRU_get(od, k).ret]
    /\ UNCHANGED NotLRU

\* DOC_CACHE.clear()
LRUClear ==
    /\ od' = LRU_clear(od)
    /\ recency' = << >>
    /\ last' = [op |-> "clear", k |-> NoKey, v |-> None, before |-> od, ret |-> None]
    /\ UNCHANGED NotLRU

\* ------------------------------------------------------ format handlers

\* _plain_text_html(text)
PlainTextHtml(text) == <<"doc-preview-inner", text>>

\* preview = normalized[:2000]
PreviewLen == 2000

\* text[:n] on runs of characters.
RECURSIVE Preview(_, _)
Preview(chars, n) ==
    IF chars = << >> \/ n = 0 THEN << >>
    ELSE IF Head(chars)[2] >= n THEN << <<Head(chars)[1], n>> >>
    ELSE <<Head(chars)>> \o Preview(Tail(chars), n - Head(chars)[2])

\* How many characters of the runs are of one of the classes.
RECURSIVE CountOf(_, _)
CountOf(chars, classes) ==
    IF chars = << >> THEN 0
    ELSE (IF Head(chars)[1] \in classes THEN Head(chars)[2] ELSE 0)
         + CountOf(Tail(chars), classes)

\* ch.isprintable() or ch in "\n\t"
PrintableClasses == {"p", "w"}

\* data.strip(b"\x00"), seen on the decoded text: the NUL characters at both
\* ends are gone (a NUL byte is a NUL character in each of the encodings).
RECURSIVE StripNulLeft(_)
StripNulLeft(chars) ==
    IF chars # << >> /\ Head(chars)[1] = "0" THEN StripNulLeft(Tail(chars)) ELSE chars

RECURSIVE StripNulRight(_)
StripNulRight(chars) ==
    IF chars # << >> /\ chars[Len(chars)][1] = "0"
    THEN StripNulRight(SubSeq(chars, 1, Len(chars) - 1))
    ELSE chars

StripNul(chars) == StripNulRight(StripNulLeft(chars))

\* text.replace("\r\n", "\n").replace("\r", "\n"): the carriage returns of
\* the model stand alone, each becomes a newline.
Normalize(chars) ==
    [j \in DOMAIN chars |-> IF chars[j][1] = "r" THEN <<"w", chars[j][2]>> ELSE chars[j]]

\* normalized.strip() is not empty: some character is not white space.
Cleaned(chars) == \E j \in DOMAIN chars : chars[j][1] \notin {"w", "u", "r"}

\* Mutant of Accepted: any decodable text is accepted, whatever its share of
\* printable characters.
Accepted_NoRatioTest(chars) ==
    /\ chars # Undecodable
    /\ StripNul(chars) # << >>
    /\ Cleaned(Normalize(StripNul(chars)))

\* One turn of the loop of _decode_possible_text on what the encoding makes
\* of the bytes: it decodes the sample, the preview of the normalized text
\* is not empty, at least 60% of it is printable, and the stripped text is
\* not empty.
Accepted(chars) ==
    /\ chars # Undecodable
    /\ LET normalized == Normalize(StripNul(chars))
           preview == Preview(normalized, PreviewLen)
           total == CountOf(preview, {"p", "w", "u", "c", "0"})
           printable == CountOf(preview, PrintableClasses)
       IN  /\ total # 0
           /\ ~(printable * 10 < total * 6)
           /\ Cleaned(normalized)

\* The text an encoding recovered: the stripped decoding, named by the
\* encoding and the bytes.
DecodedText(data, enc) == <<enc, data.id, FALSE>>

\* for enc in encodings: ...; return None
RECURSIVE DecodeLoop(_, _)
DecodeLoop(data, i) ==
    IF i > Len(Encodings) THEN None
    ELSE IF Accepted(data.dec[Encodings[i]]) THEN DecodedText(data, Encodings[i])
    ELSE DecodeLoop(data, i + 1)

\* _decode_possible_text(data): None for empty bytes and for NUL bytes only
\* (latin-1 has a character for every byte), else the loop.
Decode_possible_text(data) ==
    IF StripNul(data.dec["latin-1"]) = << >> THEN None ELSE DecodeLoop(data, 1)

\* The message that stands for the text when nothing could be decoded.
NotAWordDocument(data) == <<"not a valid Word document", data.id, FALSE>>

\* _docx_from_bytes(data): mammoth's text and html, or a RuntimeError.
Docx_from_bytes(data) ==
    IF data.docx
    THEN [ok |-> TRUE, text |-> TextOf(data), html |-> DocxHtml(data), toc |-> << >>]
    ELSE [ok |-> FALSE, err |-> "DOCX"]

\* The outcome r of a conversion, with the handlers that were invoked.
Invoking(r, invoked) ==
    [f \in DOMAIN r \cup {"invoked"} |-> IF f = "invoked" THEN invoked ELSE r[f]]

\* The legacy branch of get_document: textract on a temporary file, and the
\* decoding fallback after a TextractShellError.
Legacy(data) ==
    CASE data.legacy = "ok" ->
           [ok |-> TRUE, text |-> TextOf(data),
            html |-> PlainTextHtml(TextOf(data)), toc |-> << >>]
      [] data.legacy = "shell" ->
           LET fallback == Decode_possible_text(data)
               text == IF fallback = None THEN NotAWordDocument(data) ELSE fallback
           IN  [ok |-> TRUE, text |-> text, html |-> PlainTextHtml(text), toc |-> << >>]
      [] data.legacy = "missing" -> [ok |-> FALSE, err |-> "textract"]
      [] OTHER -> [ok |-> FALSE, err |-> "DOC"]

\* Mutant of ConvertDoc: a failure of the DOCX attempt is raised.
ConvertDoc_DocxFailureRaised(data) ==
    IF data.pk THEN Invoking(Docx_from_bytes(data), <<"docx">>)
    ELSE Invoking(Legacy(data), <<"legacy">>)

\* The doc branch of get_document: the DOCX attempt on bytes that start with
\* PK, its failure swallowed, then the legacy branch unless converted.
ConvertDoc(data) ==
    IF data.pk /\ Docx_from_bytes(data).ok
    THEN Invoking(Docx_from_bytes(data), <<"docx">>)
    ELSE Invoking(Legacy(data), IF data.pk THEN <<"docx", "legacy">> ELSE <<"legacy">>)

\* The conversion of get_document: the branch on doc_type.
Convert(doc_type, data) ==
    CASE doc_type = "markdown" ->
           [ok |-> TRUE, text |-> TextOf(data), html |-> MarkdownHtml(data),
            toc |-> TocOf(data), invoked |-> <<"markdown">>]
      [] doc_type = "docx" -> Invoking(Docx_from_bytes(data), <<"docx">>)
      [] doc_type = "doc" -> ConvertDoc(data)

\* The tuple get_document stores and returns: (etag, doc_type, text, html, toc).
DocTuple(etag, doc_type, c) == <<etag, doc_type, c.text, c.html, c.toc>>

\* ------------------------------------------- the conversion, on its own

\* The texts an encoding may decode bytes to.
TextShapes ==
    { ReadableText, ControlText,
      << <<"w", 3>> >>,
      << <<"w", 3>>, <<"u", 1>> >>,
      << <<"c", 8>>, <<"p", 12>> >>,
      << <<"c", 9>>, <<"p", 11>> >>,
      << <<"c", 1200>>, <<"p", 800>>, <<"p", 3000>> >>,
      << <<"p", 1200>>, <<"c", 800>>, <<"c", 3000>> >>,
      << <<"0", 3000>>, <<"p", 5>> >>,
      << <<"r", 6>>, <<"c", 2>>, <<"p", 2>> >>,
      << <<"0", 4>> >>,
      << >> }

\* The texts of bytes below 128: every encoding decodes them to the same.
AsciiShapes ==
    { << <<"w", 3>> >>, << <<"0", 3000>>, <<"p", 5>> >>, << <<"0", 4>> >>, << >> }

\* The decodings one byte string can have: latin-1 decodes everything, to
\* one character a byte; what gb2312 decodes, gbk decodes to the same.
Decodings(shapes) ==
    { d \in [{"utf-8", "gbk", "gb2312", "latin-1"} -> shapes \cup {Undecodable}] :
        /\ d["latin-1"] # Undecodable
        /\ d["gb2312"] \in {d["gbk"], Undecodable}
        /\ \A e \in {"utf-8", "gbk"} :
              CountOf(d[e], {"p", "w", "u", "r", "0", "c"})
                 <= CountOf(d["latin-1"], {"p", "w", "u", "r", "0", "c"})
        /\ (\E e \in DOMAIN d : d[e] \in AsciiShapes)
              => \A e, f \in DOMAIN d : d[e] = d[f] }

\* The .doc byte strings of the conversion model: every combination of what
\* the DOCX attempt and textract do, and after a TextractShellError every
\* decoding.
DocInputs(shapes) ==
    { [id |-> 5, pk |-> pk, docx |-> docx, legacy |-> legacy, dec |-> Unreadable,
       blank |-> FALSE] :
        pk \in BOOLEAN, docx \in BOOLEAN, legacy \in {"ok", "other", "missing"} }
    \cup
    { [id |-> 5, pk |-> pk, docx |-> docx, legacy |-> "shell", dec |-> dec,
       blank |-> FALSE] :
        pk \in BOOLEAN, docx \in BOOLEAN, dec \in Decodings(shapes) }

NoConversion == [ok |-> FALSE, err |-> NoKey, invoked |-> << >>]

\* The conversions the model asks for: a key and the bytes of its object.
ConvertCalls(shapes) ==
    { [pc |-> "call", key |-> key, data |-> data, result |-> NoConversion] :
        key \in {"a.MD", "b.Docx"}, data \in Contents }
    \cup
    { [pc |-> "call", key |-> "c.doc", data |-> data, result |-> NoConversion] :
        data \in DocInputs(shapes) }

ConvertIdle ==
    [pc |-> "idle", key |-> NoKey, data |-> NoObject, result |-> NoConversion]

\* The conversion of get_document on the bytes fetched for the key.
ConvertBytes ==
    /\ cv.pc = "call"
    /\ cv' = [cv EXCEPT !.pc = "done", !.result = Convert(DocType(cv.key), cv.data)]
    /\ UNCHANGED <<od, envVars, thrVars, lruHist, syncVars, sh, tp, bt, mc, cn, rw, fs, ec, om>>

\* ------------------------------------------------------------- connect

\* MINIO_ENDPOINTS as configured: the comma-separated entries, which may
\* carry blanks or be empty.
MINIO_ENDPOINTS == <<"ep1 ", " ", "ep2">>

\* e.strip() on the configured entries.
Strip(e) ==
    CASE e = "ep1 " -> "ep1"
      [] e = " "    -> ""
      [] OTHER      -> e

\* [e.strip() for e in MINIO_ENDPOINTS if e.strip()]
RECURSIVE Stripped(_)
Stripped(eps) ==
    IF eps = << >> THEN << >>
    ELSE (IF Strip(Head(eps)) # "" THEN <<Strip(Head(eps))>> ELSE << >>)
         \o Stripped(Tail(eps))

Endpoints == Stripped(MINIO_ENDPOINTS)

\* _client = None, _active_ep = None: the module as loaded. first is the
\* first pair connect ever stored, made the number of clients constructed.
\* begun counts the connect calls of the connection model.
NoClient ==
    [client |-> None, active_ep |-> NoKey, first |-> None, made |-> 0, begun |-> 0]

\* c = Minio(ep, ...): a new client object for the endpoint.
Minio(ep, serial) == <<"Minio", ep, serial>>

\* _client, _active_ep = c, ep
StoreClient(m, c, ep) ==
    [m EXCEPT !.client = c, !.active_ep = ep, !.made = Min(@ + 1, MaxConnects),
              !.first = IF @ = None THEN <<c, ep>> ELSE @]

\* connect() run without interruption when the endpoints of answers answer
\* list_buckets: [mc |-> the globals after, ok, ret |-> (client, endpoint),
\* probed |-> the endpoints tried, in order, each with whether it answered].
RECURSIVE Probes(_, _, _, _)
Probes(m, answers, i, probed) ==
    IF i > Len(Endpoints)
    THEN [mc |-> m, ok |-> FALSE, ret |-> None, probed |-> probed]
    ELSE IF Endpoints[i] \in answers
    THEN LET c == Minio(Endpoints[i], m.made + 1)
         IN  [mc |-> StoreClient(m, c, Endpoints[i]), ok |-> TRUE,
              ret |-> <<c, Endpoints[i]>>,
              probed |-> Append(probed, <<Endpoints[i], TRUE>>)]
    ELSE Probes(m, answers, i + 1, Append(probed, <<Endpoints[i], FALSE>>))

Connect(m, answers) ==
    IF m.client # None
    THEN [mc |-> m, ok |-> TRUE, ret |-> <<m.client, m.active_ep>>, probed |-> << >>]
    ELSE Probes(m, answers, 1, << >>)

\* ------------------------------------------------------------ the callers
\* The UI runs its handlers on worker threads; nothing in app.py takes a lock.

Threads == {"t1", "t2"}

Idle == [pc |-> "idle", key |-> NoKey, etag |-> None, v |-> None, n |-> 0]

NoOutcome ==
    [op |-> "none", key |-> NoKey, etag |-> None, ok |-> TRUE, err |-> NoKey,
     value |-> None, cached |-> FALSE, n |-> 0, removed |-> 0]

\* get_document raises err.
Raise(t, err) ==
    /\ done' = [done EXCEPT ![t] = [NoOutcome EXCEPT !.op = "get_document", !.key = th[t].key,
                                    !.etag = th[t].etag, !.ok = FALSE, !.err = err]]
    /\ th' = [th EXCEPT ![t] = Idle]

\* get_document returns the tuple value, from the cache or freshly converted.
Return(t, value, cached) ==
    /\ done' = [done EXCEPT ![t] = [NoOutcome EXCEPT !.op = "get_document", !.key = th[t].key,
                                    !.etag = th[t].etag, !.value = value,
                                    !.cached = cached]]
    /\ th' = [th EXCEPT ![t] = Idle]

Goto(t, pc) ==
    /\ th' = [th EXCEPT ![t].pc = pc]
    /\ UNCHANGED done

\* The etags a caller can hand to get_document: none (the preview handler),
\* or the etag the listing holds for the key (sync_elasticsearch).
KnownEtags(key) ==
    {None} \cup (IF key \in Keys /\ listing[key] # NotListed THEN {listing[key]} ELSE {})

\* get_document(key, known_etag), up to the cache lookup: connect(), the
\* extension check, and the etag handed in when there is one.
GetDocumentCall(t, key, known_etag, connected) ==
    /\ th[t].pc = "idle"
    /\ calls < MaxCalls
    /\ calls' = calls + 1
    /\ LET r == Connect(mc, IF connected THEN {Endpoints[1]} ELSE {})
       IN  /\ r.ok = connected
           /\ mc' = r.mc
    /\ IF ~connected
       THEN /\ done' = [done EXCEPT ![t] = [NoOutcome EXCEPT !.op = "get_document", !.key = key,
                                            !.ok = FALSE, !.err = "connect"]]
            /\ UNCHANGED th
       ELSE IF DocType(key) = NoKey
       THEN /\ done' = [done EXCEPT ![t] = [NoOutcome EXCEPT !.op = "get_document", !.key = key,
                                            !.ok = FALSE, !.err = "unsupported"]]
            /\ UNCHANGED th
       ELSE /\ th' = [th EXCEPT ![t] =
                        [Idle EXCEPT !.pc = IF known_etag = None THEN "stat"
                                            ELSE "cache_get",
                                     !.key = key, !.etag = known_etag]]
            /\ UNCHANGED done
    /\ UNCHANGED <<od, envVars, conv, lruHist, syncVars, sh, tp, bt, cn, miscVars>>

\* stat = c.stat_object(DOC_BUCKET, key); etag = stat.etag
StatObject(t) ==
    /\ th[t].pc = "stat"
    /\ IF store[th[t].key] = NoObject
       THEN Raise(t, "stat")
       ELSE /\ th' = [th EXCEPT ![t].pc = "cache_get",
                                ![t].etag = ETagOf(store[th[t].key])]
            /\ UNCHANGED done
    /\ UNCHANGED <<od, envVars, calls, conv, lruHist, syncVars, libVars>>

\* LRU.get, first statement: if k in self.od
CacheContains(t) ==
    /\ th[t].pc = "cache_get"
    /\ Goto(t, IF OdContains(od, th[t].key) THEN "get_move" ELSE "fetch")
    /\ UNCHANGED <<od, envVars, calls, conv, lruHist, syncVars, libVars>>

\* LRU.get, second statement: self.od.move_to_end(k); a KeyError when another
\* caller removed the key since the test.
CacheMoveToEnd_EvictsStale(t) ==
    /\ th[t].pc = "get_move"
    /\ IF OdContains(od, th[t].key)
       THEN IF OdGetItem(od, th[t].key)[1] = th[t].etag
            THEN /\ od' = OdMoveToEnd(od, th[t].key)
                 /\ Goto(t, "get_ret")
            ELSE /\ od' = OdRemove(od, th[t].key)
                 /\ Goto(t, "fetch")
       ELSE /\ Raise(t, "KeyError")
            /\ UNCHANGED od
    /\ UNCHANGED <<envVars, calls, conv, lruHist, syncVars, libVars>>

CacheMoveToEnd(t) ==
    /\ th[t].pc = "get_move"
    /\ IF OdContains(od, th[t].key)
       THEN /\ od' = OdMoveToEnd(od, th[t].key)
            /\ Goto(t, "get_ret")
       ELSE /\ Raise(t, "KeyError")
            /\ UNCHANGED od
    /\ UNCHANGED <<envVars, calls, conv, lruHist, syncVars, libVars>>

\* Mutant of CacheHit: any entry of the key is a hit, whatever its etag.
CacheHit_AnyEtag(cached, etag) == cached # None

\* Mutant of CacheHit: the etag is compared with the wrong field of the tuple.
CacheHit_WrongField(cached, etag) == cached # None /\ cached[3] = etag

\* The test of get_document on what LRU.get returned.
CacheHit(cached, etag) == cached # None /\ cached[1] = etag

\* LRU.get, third statement: return self.od[k]; then get_document's
\* if cached and cached[0] == etag: return cached
CacheReturn(t) ==
    /\ th[t].pc = "get_ret"
    /\ IF OdContains(od, th[t].key)
       THEN IF CacheHit(OdGetItem(od, th[t].key), th[t].etag)
            THEN Return(t, OdGetItem(od, th[t].key), TRUE)
            ELSE Goto(t, "fetch")
       ELSE Raise(t, "KeyError")
    /\ UNCHANGED <<od, envVars, calls, conv, lruHist, syncVars, libVars>>

\* resp = c.get_object(DOC_BUCKET, key); data = resp.read(); the conversion
\* of the bytes by document type.
FetchAndConvert(t) ==
    /\ th[t].pc = "fetch"
    /\ LET key == th[t].key
           data == store[key]
           c == Convert(DocType(key), data)
       IN  IF data = NoObject
           THEN /\ Raise(t, "get_object")
                /\ UNCHANGED conv
           ELSE /\ conv' = [conv EXCEPT ![key] = Min(@ + 1, 2)]
                /\ IF c.ok
                   THEN /\ th' = [th EXCEPT ![t].pc = "set_item",
                                            ![t].v = DocTuple(th[t].etag, DocType(key), c)]
                        /\ UNCHANGED done
                   ELSE Raise(t, c.err)
    /\ UNCHANGED <<od, envVars, calls, lruHist, syncVars, libVars>>

\* LRU.set, first statement: self.od[k] = v
CacheSetItem(t) ==
    /\ th[t].pc = "set_item"
    /\ od' = OdSetItem(od, th[t].key, th[t].v)
    /\ Goto(t, "set_move")
    /\ UNCHANGED <<envVars, calls, conv, lruHist, syncVars, libVars>>

\* LRU.set, second statement: self.od.move_to_end(k)
CacheSetMoveToEnd(t) ==
    /\ th[t].pc = "set_move"
    /\ IF OdContains(od, th[t].key)
       THEN /\ od' = OdMoveToEnd(od, th[t].key)
            /\ Goto(t, "set_len")
       ELSE /\ Raise(t, "KeyError")
            /\ UNCHANGED od
    /\ UNCHANGED <<envVars, calls, conv, lruHist, syncVars, libVars>>

\* LRU.set, third statement: if len(self.od) > self.cap
CacheSetLen(t) ==
    /\ th[t].pc = "set_len"
    /\ IF LRU_over(od) THEN Goto(t, "set_pop") ELSE Return(t, th[t].v, FALSE)
    /\ UNCHANGED <<od, envVars, calls, conv, lruHist, syncVars, libVars>>

\* LRU.set, fourth statement: self.od.popitem(last=False); a KeyError on a
\* dict another caller emptied since the test.
CacheSetPop(t) ==
    /\ th[t].pc = "set_pop"
    /\ IF od # << >>
       THEN /\ od' = OdPopFirst(od)
            /\ Return(t, th[t].v, FALSE)
       ELSE /\ Raise(t, "KeyError")
            /\ UNCHANGED od
    /\ UNCHANGED <<envVars, calls, conv, lruHist, syncVars, libVars>>

\* _clear_cache, first statement: n = len(DOC_CACHE.od)
ClearCacheLen(t) ==
    /\ th[t].pc = "idle"
    /\ calls < MaxCalls
    /\ calls' = calls + 1
    /\ th' = [th EXCEPT ![t] = [Idle EXCEPT !.pc = "clear", !.n = Len(od)]]
    /\ UNCHANGED <<od, envVars, done, conv, lruHist, syncVars, libVars>>

\* _clear_cache, second statement: DOC_CACHE.clear(); the message reports n.
ClearCacheClear(t) ==
    /\ th[t].pc = "clear"
    /\ od' = LRU_clear(od)
    /\ done' = [done EXCEPT ![t] = [NoOutcome EXCEPT !.op = "clear_cache", !.n = th[t].n,
                                    !.removed = Len(od)]]
    /\ th' = [th EXCEPT ![t] = Idle]
    /\ UNCHANGED <<envVars, calls, conv, lruHist, syncVars, libVars>>

\* ------------------------------------------------------- the object store

\* What the outside world puts in the store: new bytes, or no object.
Uploads == {c \in Contents : c.id <= 2} \cup {NoObject}

\* Somebody overwrites or deletes the object of a key. The count of
\* conversions of the key starts again when its etag changes.
StoreWrite(key, data) ==
    /\ writes < MaxWrites
    /\ data # store[key]
    /\ writes' = writes + 1
    /\ store' = [store EXCEPT ![key] = data]
    /\ conv' = [conv EXCEPT ![key] = 0]
    /\ UNCHANGED <<od, listing, th, done, calls, lruHist, syncVars, libVars>>

\* list_documents(), as _refresh_tree and _force_reindex store it in TREE_DOCS.
ListDocuments ==
    /\ listing' = [k \in Keys |-> IF store[k] = NoObject THEN NotListed
                                  ELSE ETagOf(store[k])]
    /\ listing' # listing
    /\ mc' = Connect(mc, {Endpoints[1]}).mc
    /\ UNCHANGED <<od, store, writes, thrVars, lruHist, syncVars, sh, tp, bt, cn, miscVars>>


\* ---------------------------------------------------- get_document whole

\* not text.strip(): the text is empty or whitespace only.
IsBlank_Never(text) == FALSE

IsBlank(text) == text[3]

\* get_document(key, known_etag) run without interruption on the cache d and
\* the store st: [od |-> the cache after, ok, err, value, cached].
GetDocument(d, st, key, known_etag, connected) ==
    LET failed(err, dd) ==
            [od |-> dd, ok |-> FALSE, err |-> err, value |-> None, cached |-> FALSE]
        doc_type == DocType(key)
        etag == IF known_etag = None THEN ETagOf(st[key]) ELSE known_etag
        got == LRU_get(d, key)
        c == Convert(doc_type, st[key])
        value == DocTuple(etag, doc_type, c)
    IN  IF ~connected THEN failed("connect", d)
        ELSE IF doc_type = NoKey THEN failed("unsupported", d)
        ELSE IF known_etag = None /\ st[key] = NoObject THEN failed("stat", d)
        ELSE IF CacheHit(got.ret, etag)
        THEN [od |-> got.od, ok |-> TRUE, err |-> NoKey, value |-> got.ret,
              cached |-> TRUE]
        ELSE IF st[key] = NoObject THEN failed("get_object", got.od)
        ELSE IF ~c.ok THEN failed(c.err, got.od)
        ELSE [od |-> LRU_set(got.od, key, value), ok |-> TRUE, err |-> NoKey,
              value |-> value, cached |-> FALSE]

\* ------------------------------------------------------ sync_elasticsearch

\* The listing order: list_documents sorts by key.lower().
KeyOrder == <<"a.MD", "b.Docx", "c.doc">>

\* list_documents() on the store: the <<key, etag>> pairs of the objects
\* with a supported extension, in key order.
List_documents(st) ==
    LET listed == SelectSeq(KeyOrder, LAMBDA k : st[k] # NoObject /\ DocType(k) # NoKey)
    IN  [i \in DOMAIN listed |-> <<listed[i], ETagOf(st[listed[i]])>>]

\* TREE_DOCS as the key -> etag map the threaded model reads.
ListingOf(docs) ==
    [k \in Keys |-> IF \E i \in DOMAIN docs : docs[i][1] = k
                    THEN (CHOOSE p \in {docs[i] : i \in DOMAIN docs} : p[1] = k)[2]
                    ELSE NotListed]

\* TREE_DOCS as the list of <<key, etag>> pairs it is.
DocsOf(l) ==
    LET listed == SelectSeq(KeyOrder, LAMBDA k : l[k] # NotListed)
    IN  [i \in DOMAIN listed |-> <<listed[i], l[listed[i]]>>]

DocKeys(docs) == {docs[i][1] : i \in DOMAIN docs}

\* An index without a record for the id.
NoRecord == [etag |-> None, content |-> None]

\* "size": 10000 of the query that reads the index.
SearchSize == 10000

\* existing_map: the id -> etag pairs of the hits, None for an id without hit.
\* The search returns at most SearchSize hits.
ExistingMap(ix) ==
    LET ids == SelectSeq(KeyOrder, LAMBDA k : ix[k] # NoRecord)
        hits == SubSeq(ids, 1, Min(Len(ids), SearchSize))
    IN  [k \in Keys |-> IF \E i \in DOMAIN hits : hits[i] = k THEN ix[k].etag ELSE None]

NoExisting == [k \in Keys |-> None]

\* [k for k in existing_map.keys()]
StaleIds_NoListingTest(existing_map, docs) ==
    SelectSeq(KeyOrder, LAMBDA k : existing_map[k] # None)

StaleIds_OnlyListed(existing_map, docs) ==
    SelectSeq(KeyOrder, LAMBDA k : existing_map[k] # None /\ k \in DocKeys(docs))

\* [k for k in existing_map.keys() if k not in doc_keys]
StaleIds(existing_map, docs) ==
    SelectSeq(KeyOrder, LAMBDA k : existing_map[k] # None /\ k \notin DocKeys(docs))

NoIndex == [k \in Keys |-> NoRecord]

\* errors[:5]
MaxShown == 5

\* The message of a completed run, by what it tells: the two counts, the
\* entries of errors[:5] (each escaped, joined with commas) and, when there
\* are more than five errors, their number.
SyncMessage(updated, removed, errors) ==
    [updated |-> updated, removed |-> removed,
     errors |-> SubSeq(errors, 1, Min(Len(errors), MaxShown)),
     more |-> IF Len(errors) <= MaxShown THEN 0 ELSE Len(errors)]

NoReport == [updated |-> 0, removed |-> 0, errors |-> << >>, more |-> 0]

\* The locals of a run of sync_elasticsearch, and what the run went through:
\* index0 = the index when the run began, writes0 = the number of store
\* writes then, step1 = how es_connect and the search ended, failed = a
\* delete or an es.index call of the run raised, log = what the loop over
\* docs did with each document so far, same = the run before this one had
\* the same docs, both were called with force=False and the store was not
\* written since that run began, clean = the run before ended with the
\* message of a completed sync and none of its delete or es.index calls
\* raised, dlog = the delete calls made and how each ended, writes1 = the
\* number of store writes when the listing of the run was taken,
\* resumed = the run is not forced and comes after an abandoned run of the
\* same docs with no store write in between, origin = the index that
\* abandoned run began with (the index at the call, for any other run),
\* refresh_called = the run called es.indices.refresh, absent = the search
\* of the run raised NotFoundError, report = what the returned message
\* tells of the run.
SyncIdle ==
    [pc |-> "idle", docs |-> << >>, force |-> FALSE, existing_map |-> NoExisting,
     stale |-> << >>, i |-> 1, removed |-> 0, updated |-> 0, errors |-> << >>,
     refreshed |-> FALSE, msg |-> "none",
     index0 |-> NoIndex, writes0 |-> 0, step1 |-> "none", failed |-> FALSE,
     log |-> << >>, same |-> FALSE, clean |-> FALSE,
     dlog |-> << >>, writes1 |-> 0, resumed |-> FALSE, origin |-> NoIndex,
     refresh_called |-> FALSE, absent |-> FALSE, report |-> NoReport]

\* A run with these arguments would take up the work of the abandoned run
\* before it.
Resumes(docs, force) ==
    /\ sy.pc = "done"
    /\ sy.msg = "abandoned"
    /\ sy.docs = docs
    /\ ~force
    /\ sy.writes1 = writes

\* The run that begins with these arguments, before its first statement.
SyncCall(docs, force) ==
    [SyncIdle EXCEPT !.docs = docs, !.force = force,
                     !.index0 = index, !.writes0 = writes,
                     !.same = /\ sy.pc = "done"
                              /\ ~force /\ ~sy.force
                              /\ sy.docs = docs
                              /\ sy.writes0 = writes,
                     !.clean = /\ sy.pc = "done"
                               /\ sy.msg \in {"completed", "no_docs", "disabled"}
                               /\ ~sy.failed,
                     !.writes1 = writes,
                     !.resumed = Resumes(docs, force),
                     !.origin = IF Resumes(docs, force) THEN sy.origin ELSE index]

\* sync_elasticsearch(docs, force) up to its first backend call: the two
\* early returns.
SyncBegin(docs, force) ==
    /\ sy.pc \in {"idle", "done"}
    /\ runs < MaxRuns
    /\ runs' = runs + 1
    /\ sy' = IF ~ES_ENABLED
             THEN [SyncCall(docs, force) EXCEPT !.pc = "done", !.msg = "disabled"]
             ELSE IF docs = << >>
             THEN [SyncCall(docs, force) EXCEPT !.pc = "done", !.msg = "no_docs"]
             ELSE [SyncCall(docs, force) EXCEPT !.pc = "connect"]

\* _refresh_tree: docs = list_documents(); TREE_DOCS = docs;
\* sync_elasticsearch(docs)
RefreshTree ==
    /\ SyncBegin(List_documents(store), FALSE)
    /\ listing' = ListingOf(List_documents(store))
    /\ mc' = Connect(mc, {Endpoints[1]}).mc
    /\ UNCHANGED <<od, store, writes, thrVars, lruHist, sh, tp, bt, cn, miscVars, ES_ENABLED, index>>

\* _force_reindex: TREE_DOCS = list_documents() if TREE_DOCS is empty;
\* sync_elasticsearch(TREE_DOCS, force=True)
ForceReindex ==
    LET docs == IF DocsOf(listing) = << >> THEN List_documents(store)
                ELSE DocsOf(listing)
    IN  /\ SyncBegin(docs, TRUE)
        /\ listing' = ListingOf(docs)
        /\ mc' = IF DocsOf(listing) = << >> THEN Connect(mc, {Endpoints[1]}).mc ELSE mc
        /\ UNCHANGED <<od, store, writes, thrVars, lruHist, sh, tp, bt, cn, miscVars, ES_ENABLED, index>>

\* How es_connect ends when _es_client is None: with a client; with an
\* exception of the Elasticsearch constructor, and no client kept; or with
\* an exception of ensure_es_index, after the client was kept.
ConnectOutcomes == {"ok", "client_error", "index_error"}

\* es_connect() with ES_ENABLED: the client kept in _es_client is returned
\* as it is; a new client is kept before ensure_es_index is called on it.
Es_connect(cached, outcome) ==
    IF cached # "none" THEN [ok |-> TRUE, cached |-> cached]
    ELSE [ok |-> outcome = "ok",
          cached |-> CASE outcome = "ok" -> "ensured"
                       [] outcome = "index_error" -> "unensured"
                       [] OTHER -> "none"]

\* es = es_connect(); a failure ends the run with a message.
SyncConnect(outcome) ==
    /\ sy.pc = "connect"
    /\ ec # "none" => outcome = "ok"
    /\ ec' = Es_connect(ec, outcome).cached
    /\ sy' = IF Es_connect(ec, outcome).ok
             THEN [sy EXCEPT !.pc = "search"]
             ELSE [sy EXCEPT !.pc = "done", !.msg = "connect_failed",
                             !.step1 = "failed"]
    /\ UNCHANGED <<od, envVars, thrVars, lruHist, sh, tp, bt, mc, cn, cv, rw, fs, om,
                   ES_ENABLED, index, runs>>

\* The search that reads the indexed ids and etags: hits, a NotFoundError
\* (the index is not there, so it holds no record), or another error.
SearchOutcomes(ix) ==
    {"hits", "error"} \cup (IF ix = NoIndex THEN {"not_found"} ELSE {})

\* The step after the search: a NotFoundError gives an empty existing_map,
\* another error ends the run with a message.
SyncSearch_NotFoundAborts(outcome) ==
    /\ sy.pc = "search"
    /\ outcome \in SearchOutcomes(index)
    /\ sy' = IF outcome = "hits"
             THEN [sy EXCEPT !.pc = "delete", !.existing_map = ExistingMap(index),
                             !.stale = StaleIds(ExistingMap(index), sy.docs),
                             !.step1 = "ok"]
             ELSE [sy EXCEPT !.pc = "done", !.msg = "read_failed",
                             !.step1 = "failed", !.absent = outcome = "not_found"]
    /\ UNCHANGED <<od, envVars, thrVars, lruHist, libVars, ES_ENABLED, index, runs>>

SyncSearch_ErrorAsEmpty(outcome) ==
    /\ sy.pc = "search"
    /\ outcome \in SearchOutcomes(index)
    /\ LET existing_map == IF outcome = "hits" THEN ExistingMap(index) ELSE NoExisting
       IN  sy' = [sy EXCEPT !.pc = "delete", !.existing_map = existing_map,
                            !.stale = StaleIds(existing_map, sy.docs),
                            !.step1 = IF outcome = "error" THEN "failed" ELSE "ok"]
    /\ UNCHANGED <<od, envVars, thrVars, lruHist, libVars, ES_ENABLED, index, runs>>

SyncSearch(outcome) ==
    /\ sy.pc = "search"
    /\ outcome \in SearchOutcomes(index)
    /\ LET existing_map == IF outcome = "hits" THEN ExistingMap(index) ELSE NoExisting
       IN  sy' = IF outcome = "error"
                 THEN [sy EXCEPT !.pc = "done", !.msg = "read_failed",
                                 !.step1 = "failed"]
                 ELSE [sy EXCEPT !.pc = "delete", !.existing_map = existing_map,
                                 !.stale = StaleIds(existing_map, sy.docs),
                                 !.step1 = "ok", !.absent = outcome = "not_found"]
    /\ UNCHANGED <<od, envVars, thrVars, lruHist, libVars, ES_ENABLED, index, runs>>

\* How the delete call of a stale id ends: the record is deleted; the
\* backend answers 404, which ignore_status keeps from raising; or the call
\* raises.
DeleteOutcomes == {"deleted", "not_found", "error"}

\* removed += 1: the statement after a delete call that did not raise.
DeleteCounted(outcome) == outcome # "error"

\* One round of the loop over the stale ids: es.options(ignore_status=[404])
\* .delete(id=stale_id); removed += 1 unless the call raised.
SyncDelete(outcome) ==
    /\ sy.pc = "delete"
    /\ sy.stale # << >>
    /\ outcome = "deleted" => index[Head(sy.stale)] # NoRecord
    /\ outcome = "not_found" => index[Head(sy.stale)] = NoRecord
    /\ index' = IF outcome = "deleted" THEN [index EXCEPT ![Head(sy.stale)] = NoRecord]
                ELSE index
    /\ sy' = [sy EXCEPT !.stale = Tail(sy.stale),
                        !.removed = IF DeleteCounted(outcome) THEN @ + 1 ELSE @,
                        !.failed = @ \/ outcome = "error",
                        !.dlog = Append(@, <<Head(sy.stale), outcome>>)]
    /\ UNCHANGED <<od, envVars, thrVars, lruHist, libVars, ES_ENABLED, runs>>

\* Another session's run of the reconciler, on the same listing, deletes the
\* stale id between this run's search and its delete call.
ConcurrentDelete ==
    /\ sy.pc = "delete"
    /\ sy.stale # << >>
    /\ index[Head(sy.stale)] # NoRecord
    /\ index' = [index EXCEPT ![Head(sy.stale)] = NoRecord]
    /\ UNCHANGED <<od, envVars, thrVars, lruHist, libVars, ES_ENABLED, sy, runs>>

\* The loop over the stale ids is over.
SyncDeleted ==
    /\ sy.pc = "delete"
    /\ sy.stale = << >>
    /\ sy' = [sy EXCEPT !.pc = "docs"]
    /\ UNCHANGED <<od, envVars, thrVars, lruHist, libVars, ES_ENABLED, index, runs>>

\* The record es.index writes for a document.
IndexRecord_NoEtag(value) == [etag |-> None, content |-> value[3]]

IndexRecord(value) == [etag |-> value[1], content |-> value[3]]

\* if not force and existing_map.get(key) == etag_hint: continue
UpToDate_IgnoreEtag(force, existing_map, key, etag_hint) ==
    ~force /\ existing_map[key] # None

UpToDate_WrongField(force, existing_map, key, etag_hint) ==
    ~force /\ existing_map[key] = None

UpToDate(force, existing_map, key, etag_hint) ==
    ~force /\ existing_map[key] = etag_hint

\* The loop over docs goes on with the next document.
Continue_Abort(s, did) ==
    [s EXCEPT !.i = IF did \in {"read_error", "index_error"} THEN Len(s.docs) + 1
                    ELSE @ + 1,
              !.log = Append(@, did)]

Continue(s, did) == [s EXCEPT !.i = @ + 1, !.log = Append(@, did)]

AppendError_Dropped(s, key, err) == s

\* except Exception as exc: errors.append(f"{key}: {exc}")
AppendError(s, key, err) == [s EXCEPT !.errors = Append(@, <<key, err>>)]

\* One round of the loop over docs: the skip on an equal etag, get_document,
\* the skip on blank text, es.index. The listing was taken through connect(),
\* which keeps its client, so the connect() of get_document returns it.
SyncDoc(indexed) ==
    /\ sy.pc = "docs"
    /\ sy.i <= Len(sy.docs)
    /\ LET key == sy.docs[sy.i][1]
           etag_hint == sy.docs[sy.i][2]
           r == GetDocument(od, store, key, etag_hint, TRUE)
       IN  IF UpToDate(sy.force, sy.existing_map, key, etag_hint)
           THEN /\ sy' = Continue(sy, "up_to_date")
                /\ UNCHANGED <<od, index>>
           ELSE /\ od' = r.od
                /\ IF ~r.ok
                   THEN /\ sy' = Continue(AppendError(sy, key, r.err), "read_error")
                        /\ UNCHANGED index
                   ELSE IF IsBlank(r.value[3])
                   THEN /\ sy' = Continue(sy, "blank")
                        /\ UNCHANGED index
                   ELSE IF indexed
                   THEN /\ index' = [index EXCEPT ![key] = IndexRecord(r.value)]
                        /\ sy' = Continue([sy EXCEPT !.updated = @ + 1], "indexed")
                   ELSE /\ sy' = Continue([AppendError(sy, key, "index")
                                             EXCEPT !.failed = TRUE], "index_error")
                        /\ UNCHANGED index
    /\ UNCHANGED <<envVars, thrVars, lruHist, libVars, ES_ENABLED, runs>>

\* if updated or removed:
RefreshIssued_OnlyUpdated(updated, removed) == updated > 0

RefreshIssued(updated, removed) == updated > 0 \/ removed > 0

\* After the loop over docs: es.indices.refresh when something was updated
\* or removed, its failure swallowed; then the message. The locals of the
\* run end with it.
SyncFinish(refresh_ok) ==
    /\ sy.pc = "docs"
    /\ sy.i > Len(sy.docs)
    /\ sy' = [sy EXCEPT !.pc = "done", !.msg = "completed",
                        !.existing_map = NoExisting, !.i = 1, !.dlog = << >>,
                        !.refresh_called = RefreshIssued(sy.updated, sy.removed),
                        !.report = SyncMessage(sy.updated, sy.removed, sy.errors),
                        !.refreshed = RefreshIssued(sy.updated, sy.removed) /\ refresh_ok]
    /\ UNCHANGED <<od, envVars, thrVars, lruHist, libVars, ES_ENABLED, index, runs>>

\* The caller abandons the run between two backend operations: the run ends
\* there, without a message, and its locals are lost. Another run follows.
SyncAbandon ==
    /\ sy.pc \in {"connect", "search", "delete", "docs"}
    /\ runs < MaxRuns
    /\ sy' = [sy EXCEPT !.pc = "done", !.msg = "abandoned",
                        !.existing_map = NoExisting, !.stale = << >>, !.i = 1,
                        !.dlog = << >>, !.removed = 0, !.updated = 0,
                        !.errors = << >>]
    /\ UNCHANGED <<od, envVars, thrVars, lruHist, libVars, ES_ENABLED, index, runs>>

\* ------------------------------------------- the message of a run, alone

\* How many documents of one listing fail in the runs whose message is
\* built alone.
MaxFailures == 6

\* The per-item errors a run may end with: of the documents 1 .. n, in the
\* order of the listing, those that failed, each with its failure.
ErrorLists(n) ==
    LET fates == [1..n -> {"fine", "read", "index"}]
        failing(f) == SelectSeq([i \in 1..n |-> i], LAMBDA i : f[i] # "fine")
    IN  { [j \in DOMAIN failing(f) |-> << <<"doc", failing(f)[j]>>, f[failing(f)[j]] >>] :
            f \in fates }

MessageIdle ==
    [pc |-> "idle", updated |-> 0, removed |-> 0, errors |-> << >>,
     report |-> NoReport]

\* The ends of the loops of a run: its counts and its errors.
MessageCalls(n) ==
    { [MessageIdle EXCEPT !.pc = "call", !.updated = u, !.removed = r, !.errors = e] :
        u \in 0..1, r \in 0..1, e \in ErrorLists(n) }

\* The message is built: lines 1166-1171.
BuildMessage ==
    /\ om.pc = "call"
    /\ om' = [om EXCEPT !.pc = "done",
                        !.report = SyncMessage(om.updated, om.removed, om.errors)]
    /\ UNCHANGED <<od, envVars, thrVars, lruHist, syncVars, sh, tp, bt, mc, cn,
                   cv, rw, fs, ec>>

\* (query or "").strip() on the queries of the model.
StripQuery(query) == IF query = " " THEN "" ELSE query

\* Mutant of SearchMessage: a NotFoundError of the search is not caught.
SearchMessage_NotFoundRaised(outcome) ==
    CASE outcome = "not_found" -> "raised"
      [] outcome = "error"     -> "search_failed"
      [] OTHER                 -> "results"

\* What fulltext_search returns after its search: the message of an index
\* that is not there, the message of a failed search, or the hits rendered.
SearchMessage(outcome) ==
    CASE outcome = "not_found" -> "no_index"
      [] outcome = "error"     -> "search_failed"
      [] OTHER                 -> "results"

\* No call of fulltext_search yet. connect and outcome tell how es_connect
\* and the search of the call ended, where the call came to them.
SearchIdle ==
    [pc |-> "idle", query |-> "", connect |-> "none", outcome |-> "none",
     msg |-> "none", es_calls |-> << >>]

\* fulltext_search(query), after the last run of the reconciler: the empty
\* query, the backend that is not configured, es_connect, the search.
FulltextSearch(query, connect, outcome) ==
    /\ fs.pc = "idle"
    /\ sy.pc = "done" /\ runs = MaxRuns
    /\ outcome \in SearchOutcomes(index)
    /\ ec # "none" => connect = "ok"
    /\ LET called == StripQuery(query) # "" /\ ES_ENABLED
           connected == Es_connect(ec, connect)
       IN  /\ ec' = IF called THEN connected.cached ELSE ec
           /\ fs' = [pc |-> "done", query |-> query,
                     connect |-> IF ~called THEN "none"
                                 ELSE IF ec # "none" THEN "kept" ELSE connect,
                     outcome |-> IF called /\ connected.ok THEN outcome ELSE "none",
                     msg |-> IF StripQuery(query) = "" THEN "enter_keyword"
                             ELSE IF ~ES_ENABLED THEN "not_configured"
                             ELSE IF ~connected.ok THEN "unavailable"
                             ELSE SearchMessage(outcome),
                     es_calls |-> IF ~called THEN << >>
                                  ELSE IF ~connected.ok THEN <<"es_connect">>
                                  ELSE <<"es_connect", "search">>]
    /\ UNCHANGED <<od, envVars, thrVars, lruHist, sh, tp, bt, mc, cn, cv, rw, om,
                   syncVars>>

\* What is put under a key while the reconciler is in use: bytes that no
\* object held when the program started, or nothing (the object is removed).
SyncUploads == {c \in Uploads : c.id # 1}

\* The object store changes between two runs, or after the listing of a run
\* and before the run reads any object. A run reads each object once, so a
\* write during the run shows as one of the two; the store before the first
\* run is any store, and a write after the last run is read by no run.
SyncStoreWrite(key, data) ==
    /\ sy.pc = "connect" \/ (sy.pc = "done" /\ runs < MaxRuns)
    /\ writes < MaxWrites
    /\ data # store[key]
    /\ writes' = writes + 1
    /\ store' = [store EXCEPT ![key] = data]
    /\ UNCHANGED <<od, listing, thrVars, lruHist, syncVars, libVars>>

\* The versions of a key's object an index may hold a record of before the
\* program starts: the first, and for the .md key the second too.
IndexedVersions(key) == IF Ext(key) = ".md" THEN {1, 2} ELSE {1}

\* The records an index may hold for a key before the program starts.
RecordsOf(key) ==
    {NoRecord} \cup
    { IndexRecord(DocTuple(ETagOf(c), DocType(key), Convert(DocType(key), c))) :
        c \in {x \in Contents : /\ x.id \in IndexedVersions(key)
                                  /\ Convert(DocType(key), x).ok} }


\* ------------------------------------------------------ _es_search_request

\* How a call into the client library ends: with a response (a client, for
\* options), with a TypeError (the call shape is not accepted), or with
\* another error (a timeout, a connection error, a not-found response). The
\* client returns an object, never None, so the tests on None tell a return
\* from a TypeError that _try_call recorded.
CallOutcomes == {"response", "TypeError", "timeout", "connection", "not_found"}

\* The three ways es.search is given the parameters, in the order tried.
Conventions == <<"native", "params", "query_params">>

\* The three ways an options-bound client is asked for, in the order tried.
OptionMethods == <<"options_params", "options_query_params", "options_default">>

\* The four searches tried on an options-bound client, in the order tried:
\* the first one passes no parameters.
OptionSearches == <<"no_params", "native", "params", "query_params">>

\* The label of an attempt: the object called and how.
NoLabel == <<"None", "None">>

ShimIdle ==
    [pc |-> "idle", with_params |-> FALSE, has_options |-> FALSE,
     has_transport |-> FALSE, n |-> 1, c |-> 1, option_clients |-> << >>,
     attempts |-> << >>, attempt_errors |-> << >>, last_type_error |-> NoLabel,
     result |-> "none", by |-> NoLabel, surfaced |-> << >>]

\* _record_type_error: attempt_errors.append(f"{label}: {exc}");
\* last_type_error = exc
RecordTypeError_KeepsLast(s, label) ==
    [s EXCEPT !.attempt_errors = <<label>>, !.last_type_error = label]

RecordTypeError(s, label) ==
    [s EXCEPT !.attempt_errors = Append(@, label), !.last_type_error = label]

\* The call returned: its response is what _es_search_request returns.
ShimReturn(s, label) ==
    [s EXCEPT !.pc = "done", !.result = "returned", !.by = label]

\* An error leaves _es_search_request: the error itself, with its message,
\* or the TypeError built from the recorded attempts.
ShimRaise(s, label, err, messages) ==
    [s EXCEPT !.pc = "done", !.result = err, !.by = label, !.surfaced = messages]

\* _try_call(label, func), for a call whose outcome is this: a TypeError is
\* recorded, any other error propagates.
TryCall_CatchAll(s, label, outcome) ==
    LET t == [s EXCEPT !.attempts = Append(@, <<label, outcome>>)]
    IN  IF outcome = "response" THEN t
        ELSE RecordTypeError(t, label)

TryCall(s, label, outcome) ==
    LET t == [s EXCEPT !.attempts = Append(@, <<label, outcome>>)]
    IN  IF outcome = "response" THEN t
        ELSE IF outcome = "TypeError" THEN RecordTypeError(t, label)
        ELSE ShimRaise(t, label, outcome, <<label>>)

\* Where the function goes on after the searches on the client itself and
\* after the loop over the options-bound clients.
AfterDirect(s) ==
    IF s.has_options THEN [s EXCEPT !.pc = "options", !.n = 1]
    ELSE IF s.has_transport THEN [s EXCEPT !.pc = "transport"]
    ELSE [s EXCEPT !.pc = "end"]

AfterOptions(s) ==
    IF s.option_clients # << >> THEN [s EXCEPT !.pc = "clients", !.c = 1, !.n = 1]
    ELSE IF s.has_transport THEN [s EXCEPT !.pc = "transport"]
    ELSE [s EXCEPT !.pc = "end"]

AfterClients(s) ==
    IF s.has_transport THEN [s EXCEPT !.pc = "transport"] ELSE [s EXCEPT !.pc = "end"]

\* _es_search_request(es, body, params) up to its first call: without
\* parameters it is one plain es.search.
SearchRequest(with_params, has_options, has_transport) ==
    /\ sh.pc \in {"idle", "done"}
    /\ sh' = [ShimIdle EXCEPT !.pc = IF with_params THEN "direct" ELSE "plain",
                              !.with_params = with_params,
                              !.has_options = has_options,
                              !.has_transport = has_transport]
    /\ UNCHANGED <<od, envVars, thrVars, lruHist, syncVars, tp, bt, mc, cn, miscVars>>

\* return es.search(**search_kwargs): no _try_call around it.
PlainSearch(outcome) ==
    /\ sh.pc = "plain"
    /\ LET label == <<"es", "no_params">>
           t == [sh EXCEPT !.attempts = Append(@, <<label, outcome>>)]
       IN  sh' = IF outcome = "response" THEN ShimReturn(t, label)
                 ELSE ShimRaise(t, label, outcome, <<label>>)
    /\ UNCHANGED <<od, envVars, thrVars, lruHist, syncVars, tp, bt, mc, cn, miscVars>>

\* es.search(**search_kwargs, **search_params), then params=, then
\* query_params=.
TryDirect(outcome) ==
    /\ sh.pc = "direct"
    /\ LET label == <<"es", Conventions[sh.n]>>
           t == TryCall(sh, label, outcome)
       IN  sh' = IF t.pc = "done" THEN t
                 ELSE IF outcome = "response" THEN ShimReturn(t, label)
                 ELSE IF sh.n < Len(Conventions) THEN [t EXCEPT !.n = @ + 1]
                 ELSE AfterDirect(t)
    /\ UNCHANGED <<od, envVars, thrVars, lruHist, syncVars, tp, bt, mc, cn, miscVars>>

\* options(params=...), options(query_params=...), options(): each client
\* obtained is appended to option_clients.
TryOptions(outcome) ==
    /\ sh.pc = "options"
    /\ LET label == <<"es", OptionMethods[sh.n]>>
           t == TryCall(sh, label, outcome)
           u == IF outcome = "response"
                THEN [t EXCEPT !.option_clients = Append(@, OptionMethods[sh.n])]
                ELSE t
       IN  sh' = IF t.pc = "done" THEN t
                 ELSE IF sh.n < Len(OptionMethods) THEN [u EXCEPT !.n = @ + 1]
                 ELSE AfterOptions(u)
    /\ UNCHANGED <<od, envVars, thrVars, lruHist, syncVars, tp, bt, mc, cn, miscVars>>

\* for label, client in option_clients: client.search(**search_kwargs), then
\* with **search_params, params=, query_params=.
TryClientSearch(outcome) ==
    /\ sh.pc = "clients"
    /\ LET label == <<sh.option_clients[sh.c], OptionSearches[sh.n]>>
           t == TryCall(sh, label, outcome)
       IN  sh' = IF t.pc = "done" THEN t
                 ELSE IF outcome = "response" THEN ShimReturn(t, label)
                 ELSE IF sh.n < Len(OptionSearches) THEN [t EXCEPT !.n = @ + 1]
                 ELSE IF sh.c < Len(sh.option_clients)
                 THEN [t EXCEPT !.c = @ + 1, !.n = 1]
                 ELSE AfterClients(t)
    /\ UNCHANGED <<od, envVars, thrVars, lruHist, syncVars, tp, bt, mc, cn, miscVars>>

\* transport.perform_request("POST", path, params=search_params, body=body);
\* an error of the path builder is swallowed and the path built by hand.
TryTransport(outcome) ==
    /\ sh.pc = "transport"
    /\ LET label == <<"transport", "perform_request">>
           t == TryCall(sh, label, outcome)
       IN  sh' = IF t.pc = "done" THEN t
                 ELSE IF outcome = "response" THEN ShimReturn(t, label)
                 ELSE [t EXCEPT !.pc = "end"]
    /\ UNCHANGED <<od, envVars, thrVars, lruHist, syncVars, tp, bt, mc, cn, miscVars>>

\* if last_type_error is not None: raise TypeError(f"{last_type_error}
\* (search attempts: {'; '.join(attempt_errors)})"); otherwise the plain
\* es.search.
Exhausted ==
    /\ sh.pc = "end"
    /\ sh' = IF sh.last_type_error # NoLabel
             THEN ShimRaise(sh, sh.last_type_error, "TypeError", sh.attempt_errors)
             ELSE [sh EXCEPT !.pc = "plain"]
    /\ UNCHANGED <<od, envVars, thrVars, lruHist, syncVars, tp, bt, mc, cn, miscVars>>

\* ---------------------------------------- _CompatTransport.perform_request

\* compat_header: the media type with compatible-with=ES_COMPAT_VERSION; and
\* the media type the client sends by default, with its own major version.
CompatHeader == "application/vnd.elasticsearch+json; compatible-with=8"
ClientDefault == "application/vnd.elasticsearch+json; compatible-with=9"

\* A dict as a function from its keys; the empty dict, d[k] = v, and
\* a.update(b).
EmptyDict == [k \in {} |-> NoKey]
DictSet(d, k, v) == [x \in DOMAIN d \cup {k} |-> IF x = k THEN v ELSE d[x]]
DictUpdate(a, b) == [x \in DOMAIN a \cup DOMAIN b |-> IF x \in DOMAIN b THEN b[x] ELSE a[x]]

\* The header names a caller may give (a dict tells "Accept" from "accept"),
\* the values it may give them, and the headers argument: None or a dict.
HeaderNames == {"accept", "content-type", "Accept", "x-opaque-id"}
HeaderValues == {CompatHeader, ClientDefault}
HeaderDicts == UNION {[S -> HeaderValues] : S \in SUBSET HeaderNames}
NoHeaders == [k \in {"None"} |-> "None"]

\* The parameter names Transport.perform_request of the installed library
\* may have, besides method and path.
ParamNames == {"params", "query_params", "query", "body", "request_body", "headers"}

\* for candidate in (...): if candidate in accepts: key = candidate; break
FirstAccepted(candidates, accepts) ==
    LET found == SelectSeq(candidates, LAMBDA c : c \in accepts)
    IN  IF found = << >> THEN NoKey ELSE Head(found)

\* param_key and body_key of _compat_transport_class.
ParamKey(accepts) == FirstAccepted(<<"params", "query_params", "query">>, accepts)
BodyKey(accepts) == FirstAccepted(<<"body", "request_body">>, accepts)

\* hdrs = dict(headers or {}); hdrs["accept"] = compat_header;
\* hdrs["content-type"] = compat_header
PinHeaders_SetDefault(headers) ==
    LET hdrs == IF headers = NoHeaders THEN EmptyDict ELSE headers
    IN  DictUpdate([k \in {"accept", "content-type"} |-> CompatHeader], hdrs)

PinHeaders(headers) ==
    LET hdrs == IF headers = NoHeaders THEN EmptyDict ELSE headers
    IN  DictSet(DictSet(hdrs, "accept", CompatHeader), "content-type", CompatHeader)

\* The params argument: None, an empty dict or a dict with entries; the
\* body: None or a body; the path: without or with a query string.
ParamsArgs == {"None", "empty", "params"}
BodyArgs == {"None", "body"}
PathArgs == {<<"/idx/_search">>, <<"/idx/_search", "?", "q">>}

\* request_path: the path, with the params encoded into it when the base
\* method has no parameter for them.
RequestPath(path, params, accepts, has_var_kw) ==
    IF params # "None" /\ ParamKey(accepts) = NoKey /\ ~has_var_kw /\ params = "params"
    THEN path \o <<(IF "?" \in {path[i] : i \in DOMAIN path} THEN "&" ELSE "?"), params>>
    ELSE path

\* The keyword under which the params are passed on, if any.
ParamsAs(params, accepts, has_var_kw) ==
    IF params = "None" THEN NoKey
    ELSE IF ParamKey(accepts) # NoKey THEN ParamKey(accepts)
    ELSE IF has_var_kw THEN "params"
    ELSE NoKey

\* The keyword under which the body is passed on, if any.
BodyAs(body, accepts, has_var_kw) ==
    IF body = "None" THEN NoKey
    ELSE IF BodyKey(accepts) # NoKey THEN BodyKey(accepts)
    ELSE IF has_var_kw THEN "body"
    ELSE NoKey

TransportIdle ==
    [pc |-> "idle", accepts |-> {}, has_var_kw |-> FALSE, path |-> <<"/idx/_search">>,
     params |-> "None", headers |-> NoHeaders, body |-> "None",
     raised |-> FALSE, request |-> [path |-> << >>, params_as |-> NoKey,
                                    headers |-> EmptyDict, body_as |-> NoKey]]

\* The calls of perform_request the model goes through, for a base method
\* with some of these parameters.
TransportCalls(names) ==
    { [TransportIdle EXCEPT !.pc = "call", !.accepts = a, !.has_var_kw = kw,
                            !.path = p, !.params = q, !.headers = h, !.body = b] :
        a \in SUBSET names, kw \in BOOLEAN, p \in PathArgs, q \in ParamsArgs,
        h \in HeaderDicts \cup {NoHeaders}, b \in BodyArgs }

\* perform_request(method, path, params, headers, body): the request handed
\* to super().perform_request, or the TypeError raised instead.
PerformRequest ==
    /\ tp.pc = "call"
    /\ LET hdrs == PinHeaders(tp.headers)
           takes_headers == "headers" \in tp.accepts \/ tp.has_var_kw
           takes_body == tp.body = "None" \/ BodyAs(tp.body, tp.accepts, tp.has_var_kw) # NoKey
       IN  tp' = IF takes_headers /\ takes_body
                 THEN [tp EXCEPT !.pc = "done",
                                 !.request = [path |-> RequestPath(tp.path, tp.params,
                                                                   tp.accepts, tp.has_var_kw),
                                              params_as |-> ParamsAs(tp.params, tp.accepts,
                                                                     tp.has_var_kw),
                                              headers |-> DictUpdate(EmptyDict, hdrs),
                                              body_as |-> BodyAs(tp.body, tp.accepts,
                                                                 tp.has_var_kw)]]
                 ELSE [tp EXCEPT !.pc = "done", !.raised = TRUE]
    /\ UNCHANGED <<od, envVars, thrVars, lruHist, syncVars, sh, bt, mc, cn, miscVars>>

\* --------------------------------------------------------------- build_tree

\* A key is a string, written as the sequence of its pieces: the separator
\* "/" and pieces of text without a separator.
TreeKeys ==
    { <<"a.md">>, <<"A.md">>, <<"d", "/", "a.md">>, <<"d", "/", "/", "e", "/", "a.md">>,
      <<"__files__", "/", "a.md">>, <<"d", "/">> }

\* The values of base_prefix.
Prefixes == { << >>, <<"d", "/">>, <<"d">> }

\* How many keys a call of build_tree is given.
MaxFiles == 3

\* key.startswith(base_prefix)
StartsWith(key, base_prefix) ==
    /\ Len(base_prefix) <= Len(key)
    /\ SubSeq(key, 1, Len(base_prefix)) = base_prefix

\* rel = key[len(base_prefix):] if base_prefix and
\* key.startswith(base_prefix) else key
Rel(key, base_prefix) ==
    IF base_prefix # << >> /\ StartsWith(key, base_prefix)
    THEN SubSeq(key, Len(base_prefix) + 1, Len(key))
    ELSE key

\* rel.split("/"): the segments between the separators, the empty ones
\* included.
RECURSIVE Split(_)
Split(s) ==
    IF s = << >> THEN << << >> >>
    ELSE LET rest == Split(Tail(s))
         IN  IF Head(s) = "/" THEN << << >> >> \o rest
             ELSE << <<Head(s)>> \o Head(rest) >> \o Tail(rest)

\* parts = [p for p in rel.split("/") if p]
Parts(rel) == SelectSeq(Split(rel), LAMBDA p : p # << >>)

\* The name under which a directory's dict holds the list of its files.
FilesName == <<"__files__">>

\* The nested dicts as the set of the paths of their directory dicts (the
\* root is the empty path) and, for each directory that has one, its list of
\* file keys; raised = build_tree ended with an exception instead.
EmptyTree ==
    [raised |-> FALSE, dirs |-> {<< >>}, files |-> [p \in {} |-> << >>]]

\* A dict and a list meet under the name "__files__": a directory of that
\* name is walked into where the parent has a file list (the list has no
\* setdefault), or a file is appended where the parent has a directory of
\* that name (the dict has no append).
Collides(tree, parts) ==
    \/ \E j \in 1..(Len(parts) - 1) :
         /\ parts[j] = FilesName
         /\ SubSeq(parts, 1, j - 1) \in DOMAIN tree.files
    \/ Append(SubSeq(parts, 1, Len(parts) - 1), FilesName) \in tree.dirs

\* cur.setdefault("__files__", []).append(key)
AppendFile_Overwrite(files, dir, key) ==
    [p \in DOMAIN files \cup {dir} |-> IF p = dir THEN <<key>> ELSE files[p]]

AppendFile(files, dir, key) ==
    [p \in DOMAIN files \cup {dir} |->
        IF p # dir THEN files[p]
        ELSE IF dir \in DOMAIN files THEN Append(files[dir], key)
        ELSE <<key>>]

\* One round of the loop over files: the walk along the parts of the key,
\* cur = cur.setdefault(p, {}) for each but the last, the append at the last.
Insert(tree, key, base_prefix) ==
    LET parts == Parts(Rel(key, base_prefix))
    IN  IF tree.raised \/ parts = << >> THEN tree
        ELSE IF Collides(tree, parts) THEN [tree EXCEPT !.raised = TRUE]
        ELSE [tree EXCEPT
                !.dirs = @ \cup {SubSeq(parts, 1, j) : j \in 1..(Len(parts) - 1)},
                !.files = AppendFile(@, SubSeq(parts, 1, Len(parts) - 1), key)]

\* The loop over files, from the tree made so far.
RECURSIVE InsertAll(_, _, _)
InsertAll(tree, files, base_prefix) ==
    IF files = << >> THEN tree
    ELSE InsertAll(Insert(tree, Head(files), base_prefix), Tail(files), base_prefix)

\* build_tree(files, base_prefix)
Build_tree(files, base_prefix) == InsertAll(EmptyTree, files, base_prefix)

\* The sequences a sequence can be permuted into.
PermutationsOf(files) ==
    { [i \in DOMAIN files |-> files[pi[i]]] : pi \in Permutations(DOMAIN files) }

TreeIdle ==
    [pc |-> "idle", files |-> << >>, permuted |-> << >>, base_prefix |-> << >>,
     tree |-> EmptyTree, tree_permuted |-> EmptyTree]

\* The calls of build_tree the model goes through: a sequence of at most max
\* keys, a permutation of it for a second call, and a base_prefix.
TreeCalls(max) ==
    UNION { { [TreeIdle EXCEPT !.pc = "call", !.files = f, !.permuted = g,
                               !.base_prefix = b] :
                g \in PermutationsOf(f), b \in Prefixes } :
            f \in UNION {[1..n -> TreeKeys] : n \in 0..max} }

\* tree = build_tree(files, base_prefix)
BuildTree ==
    /\ bt.pc = "call"
    /\ bt' = [bt EXCEPT !.pc = "built", !.tree = Build_tree(bt.files, bt.base_prefix)]
    /\ UNCHANGED <<od, envVars, thrVars, lruHist, syncVars, sh, tp, mc, cn, miscVars>>

\* A second call, on the permuted sequence.
BuildTreePermuted ==
    /\ bt.pc = "built"
    /\ bt' = [bt EXCEPT !.pc = "done",
                        !.tree_permuted = Build_tree(bt.permuted, bt.base_prefix)]
    /\ UNCHANGED <<od, envVars, thrVars, lruHist, syncVars, sh, tp, mc, cn, miscVars>>

\* ---------------------------------------------------- rewrite_image_links
\* A URL is the sequence of its pieces, "/" being a piece of its own.

\* The URLs of the image references of the model.
ImageUrls ==
    { <<"images", "/", "1.png">>,
      <<".", "/", "images", "/", "1.png">>,
      <<"..", "/", "images", "/", "1.png">>,
      <<"Images", "/", "1.PNG">>,
      <<"images", "/", "readme.txt">>,
      <<"docs", "/", "1.png">>,
      <<"docs", "/", "readme.txt">>,
      <<"a b.png">>,
      <<"/", "assets", "/", "logo">>,
      <<"data:image", "/", "png;base64,AAAA">>,
      <<"http:", "/", "/", "elsewhere", "/", "1.png">>,
      <<"https:", "/", "/", "elsewhere", "/", "1.png">>,
      <<"http:", "/", "/", "elsewhere", "/", "page">>,
      <<"HTTP:", "/", "/", "elsewhere", "/", "1.png">> }

\* The values IMAGE_PUBLIC_BASE is given: with and without a final slash.
ImageBases ==
    { <<"http:", "/", "/", "host", "/", "pub">>,
      <<"http:", "/", "/", "host", "/", "pub", "/">> }

\* IMG_EXTS
IMG_EXTS == {".png", ".jpg", ".jpeg", ".gif", ".webp", ".svg", ".bmp"}

\* url.lower(), piece by piece.
LowerPiece(piece) ==
    CASE piece = "Images" -> "images"
      [] piece = "1.PNG"  -> "1.png"
      [] piece = "HTTP:"  -> "http:"
      [] OTHER            -> piece

LowerUrl(url) == [j \in DOMAIN url |-> LowerPiece(url[j])]

\* The characters a piece ends with, from its last dot on.
Suffix(piece) ==
    CASE piece \in {"1.png", "a b.png"} -> ".png"
      [] piece = "1.PNG"                -> ".PNG"
      [] piece = "readme.txt"           -> ".txt"
      [] OTHER                          -> ""

\* lower.endswith(IMG_EXTS)
EndsWithImgExt(lower) == lower # << >> /\ Suffix(lower[Len(lower)]) \in IMG_EXTS

\* any(lower.startswith(p) for p in ("images/", "./images/", "../images/"))
StartsWithImages(lower) ==
    \E prefix \in { <<"images", "/">>, <<".", "/", "images", "/">>,
                     <<"..", "/", "images", "/">> } :
        StartsWith(lower, prefix)

\* re.match(r"^https?://", url)
MatchesHttp(url) ==
    /\ Len(url) >= 3
    /\ url[1] \in {"http:", "https:"}
    /\ url[2] = "/"
    /\ url[3] = "/"

\* path.strip().lstrip("./").lstrip("/"): the leading dots and slashes go.
RECURSIVE Lstrip(_)
Lstrip(url) ==
    IF url # << >> /\ Head(url) \in {".", "..", "/"} THEN Lstrip(Tail(url)) ELSE url

\* IMAGE_PUBLIC_BASE.rstrip("/")
RECURSIVE Rstrip(_)
Rstrip(base) ==
    IF base # << >> /\ base[Len(base)] = "/"
    THEN Rstrip(SubSeq(base, 1, Len(base) - 1))
    ELSE base

\* urllib.parse.quote(seg), piece by piece.
Quote(piece) ==
    CASE piece = "a b.png"         -> "a%20b.png"
      [] piece = "data:image"      -> "data%3Aimage"
      [] piece = "png;base64,AAAA" -> "png%3Bbase64%2CAAAA"
      [] piece = "HTTP:"           -> "HTTP%3A"
      [] OTHER                     -> piece

\* _to_public_image_url(path): the base without its final slashes, and the
\* quoted segments that follow it, joined by "/".
To_public_image_url(base, path) ==
    LET segs == Split(Lstrip(path))
    IN  [base |-> Rstrip(base),
         segs |-> [j \in DOMAIN segs |-> [k \in DOMAIN segs[j] |-> Quote(segs[j][k])]]]

\* return m.group(0): the reference stays as written.
Untouched == [rewritten |-> FALSE, public |-> [base |-> << >>, segs |-> << >>]]

Rewritten(base, url) == [rewritten |-> TRUE, public |-> To_public_image_url(base, url)]

\* repl_md, on the URL of a Markdown image link
Repl_md(base, url) ==
    IF MatchesHttp(url) THEN Untouched
    ELSE IF EndsWithImgExt(LowerUrl(url)) \/ StartsWithImages(LowerUrl(url))
    THEN Rewritten(base, url)
    ELSE Untouched

\* repl_img, on the src of an HTML img tag
Repl_img(base, url) ==
    IF MatchesHttp(url) THEN Untouched ELSE Rewritten(base, url)

\* The forms of reference rewrite_image_links looks for: the Markdown image
\* link, the img tag with src in double quotes and with src in single quotes.
Forms == {"md", "img_dq", "img_sq"}

RewriteIdle ==
    [pc |-> "idle", form |-> "md", base |-> << >>, url |-> << >>, out |-> Untouched]

RewriteCalls(urls) ==
    { [pc |-> "call", form |-> form, base |-> base, url |-> url, out |-> Untouched] :
        form \in Forms, base \in ImageBases, url \in urls }

\* rewrite_image_links on a text that holds the one reference.
RewriteImageLinks ==
    /\ rw.pc = "call"
    /\ rw' = [rw EXCEPT !.pc = "done",
                        !.out = IF rw.form = "md" THEN Repl_md(rw.base, rw.url)
                                ELSE Repl_img(rw.base, rw.url)]
    /\ UNCHANGED <<od, envVars, thrVars, lruHist, syncVars, sh, tp, bt, mc, cn, cv, fs, ec, om>>

\* ------------------------------------------------ connect, interleaved
\* connect() takes no lock: a caller can be between its test of _client and
\* its assignment while another caller runs connect.

\* A caller outside connect. seen is what connect had first stored when the
\* call began, wrote whether the call assigned _client.
ConnIdle ==
    [pc |-> "idle", i |-> 0, probed |-> << >>, ret |-> None, raised |-> << >>,
     seen |-> None, wrote |-> FALSE]

\* connect(), up to the loop: if _client is not None: return _client, _active_ep
ConnectCall(t) ==
    /\ cn[t].pc \in {"idle", "done"}
    /\ mc.begun < MaxConnects
    /\ mc' = [mc EXCEPT !.begun = @ + 1]
    /\ cn' = [cn EXCEPT ![t] =
                IF mc.client # None
                THEN [ConnIdle EXCEPT !.pc = "done", !.seen = mc.first,
                                      !.ret = <<mc.client, mc.active_ep>>]
                ELSE [ConnIdle EXCEPT !.pc = "probe", !.i = 1, !.seen = mc.first]]
    /\ UNCHANGED <<od, envVars, thrVars, lruHist, syncVars, sh, tp, bt, miscVars>>

\* One turn of the loop: c = Minio(ep, ...); c.list_buckets(); on success
\* _client, _active_ep = c, ep; return c, ep; on any exception the next ep.
ConnectProbe(t, answers) ==
    /\ cn[t].pc = "probe"
    /\ cn[t].i <= Len(Endpoints)
    /\ LET ep == Endpoints[cn[t].i]
           c == Minio(ep, mc.made + 1)
       IN  IF answers
           THEN /\ mc' = StoreClient(mc, c, ep)
                /\ cn' = [cn EXCEPT ![t].pc = "done", ![t].ret = <<c, ep>>,
                                    ![t].wrote = TRUE,
                                    ![t].probed = Append(@, <<ep, TRUE>>)]
           ELSE /\ cn' = [cn EXCEPT ![t].i = @ + 1,
                                    ![t].probed = Append(@, <<ep, FALSE>>)]
                /\ UNCHANGED mc
    /\ UNCHANGED <<od, envVars, thrVars, lruHist, syncVars, sh, tp, bt, miscVars>>

\* After the loop: raise RuntimeError(f"... {MINIO_ENDPOINTS} ...")
ConnectRaise(t) ==
    /\ cn[t].pc = "probe"
    /\ cn[t].i > Len(Endpoints)
    /\ cn' = [cn EXCEPT ![t].pc = "done", ![t].raised = MINIO_ENDPOINTS]
    /\ UNCHANGED <<od, envVars, thrVars, lruHist, syncVars, sh, tp, bt, mc, miscVars>>

\* ------------------------------------------------- the specifications

\* The versions of a key's object the store may hold when the program
\* starts: the first, and for the .docx key the second too (the only one of
\* the two that the DOCX handler reads).
StoredVersions(key) == IF Ext(key) = ".docx" THEN {1, 2} ELSE {1}

InitEnv ==
    /\ store \in {st \in [Keys -> {c \in Contents : c.id \in {1, 2}}] :
                     \A k \in Keys : st[k].id \in StoredVersions(k)}
    /\ listing = [k \in Keys |-> NotListed]
    /\ writes = 0

InitThreads ==
    /\ th = [t \in Threads |-> Idle]
    /\ done = [t \in Threads |-> NoOutcome]
    /\ calls = 0
    /\ conv = [k \in Keys |-> 0]

InitSyncIdle ==
    /\ ES_ENABLED = TRUE
    /\ index = [k \in Keys |-> NoRecord]
    /\ sy = SyncIdle
    /\ runs = 0

\* Nothing was asked of the search shim, the transport or the tree builder.
InitConnect ==
    /\ mc = NoClient
    /\ cn = [t \in Threads |-> ConnIdle]
    /\ cv = ConvertIdle
    /\ rw = RewriteIdle
    /\ fs = SearchIdle
    /\ ec = "none"
    /\ om = MessageIdle

InitLib ==
    /\ sh = ShimIdle
    /\ tp = TransportIdle
    /\ bt = TreeIdle
    /\ InitConnect

InitLRU ==
    /\ InitLib
    /\ od = << >>
    /\ recency = << >>
    /\ last = NoOp
    /\ InitEnv
    /\ InitThreads
    /\ InitSyncIdle

\* The LRU takes any string as a key.
NextLRU ==
    \/ \E k \in Keys \cup BadKeys : \E v \in LRUValues(k) : LRUSet(k, v)
    \/ \E k \in Keys \cup BadKeys : LRUGet(k)
    \/ LRUClear

SpecLRU == InitLRU /\ [][NextLRU]_vars

InitSync ==
    /\ InitLib
    /\ od = << >>
    /\ recency = << >>
    /\ last = NoOp
    /\ store \in [Keys -> {c \in Contents : c.id \in {1, 4}} \cup {NoObject}]
    /\ listing = [k \in Keys |-> NotListed]
    /\ writes = 0
    /\ InitThreads
    /\ ES_ENABLED \in BOOLEAN
    /\ index \in {ix \in [Keys -> UNION {RecordsOf(k) : k \in Keys}] :
                    \A k \in Keys : ix[k] \in RecordsOf(k)}
    /\ sy = SyncIdle
    /\ runs = 0

NextSync ==
    \/ RefreshTree
    \/ ForceReindex
    \/ \E outcome \in ConnectOutcomes : SyncConnect(outcome)
    \/ \E outcome \in {"hits", "not_found", "error"} : SyncSearch(outcome)
    \/ \E outcome \in DeleteOutcomes : SyncDelete(outcome)
    \/ ConcurrentDelete
    \/ SyncAbandon
    \/ \E query \in {" ", "word"} : \E connect \in ConnectOutcomes :
         \E outcome \in {"hits", "not_found", "error"} :
             FulltextSearch(query, connect, outcome)
    \/ SyncDeleted
    \/ \E indexed \in BOOLEAN : SyncDoc(indexed)
    \/ \E refresh_ok \in BOOLEAN : SyncFinish(refresh_ok)
    \/ \E key \in Keys : \E data \in SyncUploads : SyncStoreWrite(key, data)

SpecSync == InitSync /\ [][NextSync]_vars

\* ------------------------------------------- the callers, interleaved

Init ==
    /\ InitLib
    /\ od = << >>
    /\ recency = << >>
    /\ last = NoOp
    /\ InitEnv
    /\ InitThreads
    /\ InitSyncIdle

Handler(t) ==
    \/ \E key \in Keys \cup BadKeys : \E known_etag \in KnownEtags(key) :
         \E connected \in BOOLEAN : GetDocumentCall(t, key, known_etag, connected)
    \/ StatObject(t)
    \/ CacheContains(t)
    \/ CacheMoveToEnd(t)
    \/ CacheReturn(t)
    \/ FetchAndConvert(t)
    \/ CacheSetItem(t)
    \/ CacheSetMoveToEnd(t)
    \/ CacheSetLen(t)
    \/ CacheSetPop(t)
    \/ ClearCacheLen(t)
    \/ ClearCacheClear(t)

Environment ==
    \/ \E key \in Keys : \E data \in Uploads : StoreWrite(key, data)
    \/ ListDocuments

Next == (\E t \in Threads : Handler(t)) \/ Environment

Spec == Init /\ [][Next]_vars

\* One caller at a time: every handler runs to its end before the next starts.
NextSeq == Handler("t1") \/ Environment

SpecSeq == Init /\ [][NextSeq]_vars

\* ------------------------------------- the shim, the transport, the tree

\* The client given to _es_search_request has an options method or not, and
\* a transport or not; the parameters are empty or not.
NextShim ==
    \/ \E with_params, has_options, has_transport \in BOOLEAN :
         SearchRequest(with_params, has_options, has_transport)
    \/ \E outcome \in CallOutcomes : PlainSearch(outcome)
    \/ \E outcome \in CallOutcomes : TryDirect(outcome)
    \/ \E outcome \in CallOutcomes : TryOptions(outcome)
    \/ \E outcome \in CallOutcomes : TryClientSearch(outcome)
    \/ \E outcome \in CallOutcomes : TryTransport(outcome)
    \/ Exhausted

SpecShim == Init /\ [][NextShim]_vars

InitTransport ==
    /\ sh = ShimIdle
    /\ tp \in TransportCalls(ParamNames)
    /\ bt = TreeIdle
    /\ InitConnect
    /\ od = << >>
    /\ recency = << >>
    /\ last = NoOp
    /\ InitEnv
    /\ InitThreads
    /\ InitSyncIdle

SpecTransport == InitTransport /\ [][PerformRequest]_vars

InitTree ==
    /\ sh = ShimIdle
    /\ tp = TransportIdle
    /\ bt \in TreeCalls(MaxFiles)
    /\ InitConnect
    /\ od = << >>
    /\ recency = << >>
    /\ last = NoOp
    /\ InitEnv
    /\ InitThreads
    /\ InitSyncIdle

NextTree == BuildTree \/ BuildTreePermuted

SpecTree == InitTree /\ [][NextTree]_vars

\* The conversion alone, on every input of the model.
InitConvert ==
    /\ sh = ShimIdle
    /\ tp = TransportIdle
    /\ bt = TreeIdle
    /\ mc = NoClient
    /\ cn = [t \in Threads |-> ConnIdle]
    /\ cv \in ConvertCalls(TextShapes)
    /\ rw = RewriteIdle
    /\ fs = SearchIdle
    /\ ec = "none"
    /\ om = MessageIdle
    /\ od = << >>
    /\ recency = << >>
    /\ last = NoOp
    /\ InitEnv
    /\ InitThreads
    /\ InitSyncIdle

SpecConvert == InitConvert /\ [][ConvertBytes]_vars

\* The message of a run alone, on every list of errors of the model.
InitMessage ==
    /\ sh = ShimIdle
    /\ tp = TransportIdle
    /\ bt = TreeIdle
    /\ mc = NoClient
    /\ cn = [t \in Threads |-> ConnIdle]
    /\ cv = ConvertIdle
    /\ rw = RewriteIdle
    /\ fs = SearchIdle
    /\ ec = "none"
    /\ om \in MessageCalls(MaxFailures)
    /\ od = << >>
    /\ recency = << >>
    /\ last = NoOp
    /\ InitEnv
    /\ InitThreads
    /\ InitSyncIdle

SpecMessage == InitMessage /\ [][BuildMessage]_vars

\* The image rewrite alone, on every reference of the model.
InitRewrite ==
    /\ sh = ShimIdle
    /\ tp = TransportIdle
    /\ bt = TreeIdle
    /\ mc = NoClient
    /\ cn = [t \in Threads |-> ConnIdle]
    /\ cv = ConvertIdle
    /\ rw \in RewriteCalls(ImageUrls)
    /\ fs = SearchIdle
    /\ ec = "none"
    /\ om = MessageIdle
    /\ od = << >>
    /\ recency = << >>
    /\ last = NoOp
    /\ InitEnv
    /\ InitThreads
    /\ InitSyncIdle

SpecRewrite == InitRewrite /\ [][RewriteImageLinks]_vars

\* connect alone, with two callers.
NextConnect ==
    \E t \in Threads :
        \/ ConnectCall(t)
        \/ \E answers \in BOOLEAN : ConnectProbe(t, answers)
        \/ ConnectRaise(t)

SpecConnect == Init /\ [][NextConnect]_vars

\* ------------------------------------------------- claims on the LRU alone

\* C1: after every set, get or clear the cache holds at most Capacity
\* entries, and its keys are, in recency order, the min(Capacity, number of
\* distinct keys set since the last clear) most recently accessed keys (an
\* access is a set or a get that hits); a set of a new key into a full cache
\* evicts the least recently used entry and no other.
C1_LRUHoldsMostRecent ==
    /\ Len(od) <= Capacity
    /\ od = LastN(recency, Min(Capacity, Len(recency)))
    /\ (last.op = "set" /\ ~OdContains(last.before, last.k)
                        /\ Len(last.before) = Capacity)
         => od = Append(Tail(last.before), <<last.k, last.v>>)

\* C1 witness: a new key was set into a full cache, evicting an entry.
C1_Witness ==
    /\ last.op = "set"
    /\ ~OdContains(last.before, last.k)
    /\ Len(last.before) = Capacity
    /\ Len(recency) > Capacity
    /\ OdKeys(od) # OdKeys(last.before)

\* C2: a set on a key that is present replaces its value, makes it the most
\* recently used, evicts nothing, and leaves the number of entries and every
\* other key's value and relative order as they were.
C2_SetExistingKey ==
    (last.op = "set" /\ OdContains(last.before, last.k)) =>
        /\ Len(od) = Len(last.before)
        /\ OdKeys(od) = OdKeys(last.before)
        /\ od[Len(od)] = <<last.k, last.v>>
        /\ OdRemove(od, last.k) = OdRemove(last.before, last.k)

\* C2 witness: a present key that was not the most recent one was set to a
\* new value, with another entry in the cache.
C2_Witness ==
    /\ last.op = "set"
    /\ OdContains(last.before, last.k)
    /\ Len(last.before) = Capacity
    /\ last.before[Len(last.before)][1] # last.k
    /\ OdGetItem(last.before, last.k) # last.v

\* C3: a get on a present key returns the value last set for it and makes
\* the key the most recently used, changing no stored value; a get on an
\* absent key returns None and leaves the entries and their order unchanged.
C3_GetHitAndMiss ==
    last.op = "get" =>
        IF OdContains(last.before, last.k)
        THEN /\ last.ret = OdGetItem(last.before, last.k)
             /\ last.ret = OdGetItem(recency, last.k)
             /\ od = Append(OdRemove(last.before, last.k), <<last.k, last.ret>>)
        ELSE /\ last.ret = None
             /\ od = last.before

\* C3 witness: a get hit the least recently used key of a full cache, after
\* an earlier entry was evicted.
C3_Witness ==
    /\ last.op = "get"
    /\ Len(last.before) = Capacity
    /\ last.before[1][1] = last.k
    /\ last.ret # None
    /\ Len(recency) > Capacity

\* ------------------------------------------------ claims on the handlers

\* C4: _clear_cache empties the cache and reports as evicted the number of
\* entries its clear removed, also when other callers add or evict entries
\* between its count and its clear.
C4_ClearReportsRemoved ==
    \A t \in Threads :
        done[t].op = "clear_cache" => done[t].n = done[t].removed

\* A caller is inside LRU.get or LRU.set: it ran the first statement of the
\* method and not yet the last.
InLRU(t) == th[t].pc \in {"get_move", "get_ret", "set_move", "set_len", "set_pop"}

\* C5: get, set and clear exclude each other: no caller is inside an LRU
\* method while another is, so nobody sees the dict between an insertion and
\* its eviction or between a hit test and its promotion, and the capacity
\* bound holds whenever a caller looks.
C5_CacheOperationsSerialized ==
    /\ \A t, u \in Threads : t # u => ~(InLRU(t) /\ InLRU(u))
    /\ \A t \in Threads : th[t].pc \in {"get_move", "get_ret"} => Len(od) <= Capacity

\* C6: get_document returns a cache entry only when the etag stored in it
\* equals the etag the call observed for the key (the stat, or the etag
\* handed in); otherwise it fetches and converts, and what it then stores
\* and returns carries the observed etag.
C6_CachedOnlyOnEqualEtag ==
    \A t \in Threads :
        /\ (done[t].op = "get_document" /\ done[t].ok)
              => done[t].value[1] = done[t].etag
        /\ th[t].pc \in {"set_item", "set_move", "set_len", "set_pop"}
              => th[t].v[1] = th[t].etag

\* C6 witness: the store changed the etag of a cached key, and a later call
\* for the key did not return the cached tuple but a fresh one.
C6_Witness ==
    /\ done["t1"].op = "get_document" /\ done["t1"].ok /\ ~done["t1"].cached
    /\ writes > 0
    /\ conv[done["t1"].key] = 1
    /\ calls >= 2
    /\ done["t1"].etag = ETagOf(store[done["t1"].key])

\* C7: when a get_document returned for a key, the next handler is a
\* get_document for the same key, and it observes the etag the first one
\* returned, then it returns the identical tuple from the cache (the return
\* that precedes get_object and the conversion).
C7_SecondCallServedFromCache ==
    [][\A t \in Threads :
          ( /\ th[t].pc \notin {"idle", "clear"}
            /\ th'[t].pc = "idle"
            /\ done[t].op = "get_document" /\ done[t].ok
            /\ done[t].key = th[t].key
            /\ done[t].value[1] = th[t].etag )
          => ( /\ done'[t].ok
               /\ done'[t].cached
               /\ done'[t].value = done[t].value )]_vars

\* C7 witness: two calls were made, the first stored a tuple and the second
\* returned it from the cache.
C7_Witness ==
    /\ calls = 2
    /\ th["t1"].pc = "idle"
    /\ done["t1"].op = "get_document" /\ done["t1"].ok /\ done["t1"].cached
    /\ OdContains(od, done["t1"].key)
    /\ \E k \in Keys : conv[k] = 1

\* C8: whatever the callers and their interleaving, the bytes of a key are
\* converted at most once for each etag change the store reports for it.
C8_OneConversionPerEtagChange ==
    \A k \in Keys : conv[k] <= 1

\* The tuple the conversion of the bytes with this etag gives for the key.
TupleOfEtag(key, etag) ==
    { DocTuple(etag, DocType(key), Convert(DocType(key), d)) :
        d \in {c \in Contents : ETagOf(c) = etag /\ Convert(DocType(key), c).ok} }

\* C9: every cache entry holds the artifacts converted from the bytes the
\* store held under the entry's etag, also when the object is overwritten
\* between the etag observation and the fetch; so an entry whose etag is the
\* etag of the key in the store holds the artifacts of the current bytes.
C9_CacheValidity ==
    \A i \in DOMAIN od : od[i][2] \in TupleOfEtag(od[i][1], od[i][2][1])

\* ------------------------------------------------ claims on the reconciler

\* The run ended with the message of a completed sync, not with one of the
\* messages that tell a failure to reach the backend.
SyncCompleted == sy.pc = "done" /\ sy.msg \in {"completed", "no_docs"}

ReportedIds == {sy.errors[i][1] : i \in DOMAIN sy.errors}

\* C10: after a sync run that ended without a top-level error, whatever the
\* listing (the empty one included), the index holds no id that the listing
\* does not name, except the ids whose failure the run reported.
C10_NoIdOutsideListing ==
    SyncCompleted =>
        \A k \in Keys : index[k] # NoRecord => k \in DocKeys(sy.docs) \cup ReportedIds

\* The run is the second of two runs of sync(docs, force=False) in
\* succession: same docs, and no store write from the start of the first
\* run up to now.
SecondRun == sy.pc = "done" /\ sy.same /\ sy.writes0 = writes

AllProcessed == sy.pc = "docs" /\ sy.i > Len(sy.docs)

\* No call to the search backend failed in the run so far.
NoBackendFailure == sy.step1 = "ok" /\ ~sy.failed

\* The ids an index holds.
IdsOf(ix) == {k \in Keys : ix[k] # NoRecord}

\* The ids of the prior index that the listing does not name.
StaleOf(ix, docs) == IdsOf(ix) \ DocKeys(docs)

\* The positions of the listing whose document has text that is not empty
\* (the text get_document gave the run, where the run asked for it) and is
\* absent from the prior index or there with another fingerprint.
ToUpsert(ix, docs, log) ==
    {i \in DOMAIN docs : /\ ix[docs[i][1]].etag # docs[i][2]
                         /\ log[i] \notin {"read_error", "blank"}}

Positions(docs, log, did) ==
    SelectSeq([i \in DOMAIN docs |-> i], LAMBDA i : i <= Len(log) /\ log[i] \in did)

Failures == {"read_error", "index_error"}

LabelsOf(attempts) == [i \in DOMAIN attempts |-> attempts[i][1]]

\* An attempt that asks for an options-bound client, not for a search.
AsksForClient(attempt) ==
    attempt[1][1] = "es" /\ \E n \in DOMAIN OptionMethods : attempt[1][2] = OptionMethods[n]

\* The searches attempted so far, in order.
Searches(attempts) == LabelsOf(SelectSeq(attempts, LAMBDA a : ~AsksForClient(a)))

\* The three conventions on one client.
ThreeOn(client) == [n \in DOMAIN Conventions |-> <<client, Conventions[n]>>]

RECURSIVE ThreeOnEach(_)
ThreeOnEach(clients) ==
    IF clients = << >> THEN << >>
    ELSE ThreeOn(Head(clients)) \o ThreeOnEach(Tail(clients))

\* The order the claim gives: the three conventions on the client, the same
\* three on each options-bound client, the raw transport request.
ClaimedOrder(option_clients, has_transport) ==
    ThreeOn("es") \o ThreeOnEach(option_clients)
        \o (IF has_transport THEN << <<"transport", "perform_request">> >> ELSE << >>)

IsPrefix(s, t) == Len(s) <= Len(t) /\ SubSeq(t, 1, Len(s)) = s

\* C15: for a search with parameters, the searches the shim attempts are,
\* in order, the native keyword arguments, the params mapping, the
\* query_params mapping, the same three on each options-bound client it
\* obtained, and the raw transport request; every attempt before the last
\* one raised a shape-class error, and the search returns the response of
\* the first attempt that did not.
C15_AttemptsInClaimedOrder ==
    sh.with_params =>
        /\ IsPrefix(Searches(sh.attempts),
                    ClaimedOrder(sh.option_clients, sh.has_transport))
        /\ \A i \in DOMAIN sh.attempts :
              (i < Len(sh.attempts) /\ ~AsksForClient(sh.attempts[i]))
                 => sh.attempts[i][2] = "TypeError"
        /\ (sh.pc = "done" /\ sh.result = "returned")
              => /\ sh.attempts[Len(sh.attempts)] = <<sh.by, "response">>
                 /\ ~AsksForClient(sh.attempts[Len(sh.attempts)])

\* The search ended with an error.
ShimFailed == sh.pc = "done" /\ sh.result \notin {"none", "returned"}

\* What the attempts made give to surface: the labels of those that raised
\* a shape-class error, in the order they were made.
ShapeErrors(attempts) == LabelsOf(SelectSeq(attempts, LAMBDA a : a[2] = "TypeError"))

\* Every attempted calling convention raised a shape-class error (an
\* options-bound client that was obtained is not a calling convention).
AllRaisedShape(attempts) ==
    \A i \in DOMAIN attempts : attempts[i][2] = "TypeError" \/ AsksForClient(attempts[i])

\* No failure that _try_call recorded is among the messages of the outcome.
NoneSurfaced ==
    \A j \in DOMAIN sh.surfaced :
        \A i \in DOMAIN sh.attempt_errors : sh.surfaced[j] # sh.attempt_errors[i]

\* C16 as stated: the search fails only if every attempted calling
\* convention raised a shape-class error, and the error then carries the
\* messages of all the attempts, in order; when an attempt does not raise a
\* shape-class error none of the recorded failures is surfaced.
C16_FailsOnlyWhenAllShapesRejected ==
    /\ ShimFailed => ( /\ AllRaisedShape(sh.attempts)
                       /\ sh.surfaced = ShapeErrors(sh.attempts) )
    /\ (sh.pc = "done" /\ ~AllRaisedShape(sh.attempts)) => NoneSurfaced

\* C16 amended: the search fails with a shape-class error only if every
\* attempted calling convention raised a shape-class error, and that error
\* carries the messages of all these attempts, in order; when an attempt
\* does not raise a shape-class error none of the recorded failures is
\* surfaced, and a search that returns a response surfaces nothing.
C16_ShapeFailureCarriesAllAttempts ==
    /\ (sh.pc = "done" /\ sh.result = "TypeError")
          => ( /\ AllRaisedShape(sh.attempts)
               /\ sh.surfaced = ShapeErrors(sh.attempts) )
    /\ (sh.pc = "done" /\ ~AllRaisedShape(sh.attempts)) => NoneSurfaced
    /\ (sh.pc = "done" /\ sh.result = "returned") => sh.surfaced = << >>

\* C16 witness: every convention was rejected on the client, on two
\* options-bound clients and on the transport, and the error carries them
\* all.
C16_Witness ==
    /\ sh.pc = "done" /\ sh.result = "TypeError"
    /\ Len(sh.option_clients) = 2
    /\ sh.has_transport
    /\ Len(sh.surfaced) = 13

\* C17: an attempt that fails with an error that is not a shape-class error
\* is the last attempt of the search, and the search ends with that error.
C17_OtherErrorEndsSearch ==
    \A i \in DOMAIN sh.attempts :
        sh.attempts[i][2] \notin {"response", "TypeError"}
           => /\ i = Len(sh.attempts)
              /\ sh.pc = "done"
              /\ sh.result = sh.attempts[i][2]
              /\ sh.by = sh.attempts[i][1]

\* C17 witness: the first convention was rejected, the second timed out,
\* and the client had more to try.
C17_Witness ==
    /\ sh.pc = "done" /\ sh.result = "timeout"
    /\ Len(sh.attempts) = 2
    /\ sh.has_options /\ sh.has_transport

\* ------------------------------------------------- claims on the transport

\* The names of the headers the caller gave with the request.
GivenNames == IF tp.headers = NoHeaders THEN {} ELSE DOMAIN tp.headers

Pinned == {"accept", "content-type"}

\* C18: every request perform_request hands to the underlying transport has
\* the headers accept and content-type equal to the pinned compatibility
\* value, whatever the caller gave (no headers, other headers, other values
\* of accept and content-type); every other header of the caller is in the
\* request with the caller's value, and the request has no further header.
C18_CompatHeadersPinned ==
    (tp.pc = "done" /\ ~tp.raised) =>
        /\ DOMAIN tp.request.headers = GivenNames \cup Pinned
        /\ \A h \in Pinned : tp.request.headers[h] = CompatHeader
        /\ \A h \in GivenNames \ Pinned : tp.request.headers[h] = tp.headers[h]

\* C18 witness: the caller gave accept and content-type with the client's
\* default value and one more header, and the request was passed on.
C18_Witness ==
    /\ tp.pc = "done" /\ ~tp.raised
    /\ GivenNames = {"accept", "content-type", "x-opaque-id"}
    /\ tp.headers["accept"] = ClientDefault
    /\ tp.headers["content-type"] = ClientDefault
    /\ tp.request.headers["accept"] = CompatHeader
    /\ tp.request.headers["x-opaque-id"] = tp.headers["x-opaque-id"]

\* ---------------------------------------------- claims on the tree builder

\* How many times a key is in a list of keys.
Count(keys, key) == Cardinality({i \in DOMAIN keys : keys[i] = key})

\* Two outcomes of build_tree with the same directory nodes at the same
\* paths and, in each directory, the same collection of file keys.
SameTree(t, u) ==
    /\ t.raised = u.raised
    /\ ~t.raised =>
          /\ t.dirs = u.dirs
          /\ DOMAIN t.files = DOMAIN u.files
          /\ \A d \in DOMAIN t.files :
                \A key \in TreeKeys : Count(t.files[d], key) = Count(u.files[d], key)

\* C19: build_tree is order-independent: for every key sequence and every
\* permutation of it, the two trees have the same directory nodes at the
\* same paths and, in each directory, the same collection of file keys.
C19_BuildTreeOrderIndependent ==
    bt.pc = "done" => SameTree(bt.tree, bt.tree_permuted)

\* C19 witness: two orders of the same keys gave a tree with a nested
\* directory and a directory whose list of files is in another order.
C19_Witness ==
    /\ bt.pc = "done"
    /\ bt.permuted # bt.files
    /\ ~bt.tree.raised
    /\ \E d \in bt.tree.dirs : Len(d) = 2
    /\ \E d \in DOMAIN bt.tree.files : bt.tree.files[d] # bt.tree_permuted.files[d]

\* The directory a key belongs to: the segments of the key, without the
\* last, after the base_prefix is stripped from a key that starts with it.
DirOf(key, base_prefix) ==
    LET parts == Parts(Rel(key, base_prefix))
    IN  IF parts = << >> THEN << >> ELSE SubSeq(parts, 1, Len(parts) - 1)

\* C20: build_tree places every input key exactly as many times as it
\* occurs in the input: each segment of the key except the last is a
\* directory node on the path from the root, and the full key is in the
\* file list of the directory these segments name, once for each
\* occurrence; no key is dropped or merged with another (two keys that
\* differ by letter case are two leaves).
C20_EveryKeyPlaced ==
    bt.pc \in {"built", "done"} =>
        /\ ~bt.tree.raised
        /\ \A i \in DOMAIN bt.files :
              LET key == bt.files[i]
                  dir == DirOf(key, bt.base_prefix)
              IN  /\ \A j \in 0..Len(dir) : SubSeq(dir, 1, j) \in bt.tree.dirs
                  /\ dir \in DOMAIN bt.tree.files
                  /\ Count(bt.tree.files[dir], key) = Count(bt.files, key)

\* ------------------------------------------------- claims on connect

\* The endpoints of a probe log, in the order tried.
ProbedEps(probed) == [j \in DOMAIN probed |-> probed[j][1]]

\* The call tried the endpoints in the configured order and stopped at the
\* first that answered.
InOrderToFirstAnswer(c) ==
    /\ IsPrefix(ProbedEps(c.probed), Endpoints)
    /\ \A j \in DOMAIN c.probed : c.probed[j][2] <=> (j = Len(c.probed) /\ c.ret # None)

\* The error names every endpoint the call tried.
NamesAttempted(c) ==
    \A j \in DOMAIN c.probed : \E k \in DOMAIN c.raised : Strip(c.raised[k]) = c.probed[j][1]

\* C25: connect tries the configured endpoints in order and returns the
\* client of the first that answers, trying none after it; when every
\* endpoint fails it raises an error naming the endpoints tried and stores
\* no client; once an endpoint has succeeded, every later connect returns
\* that same client and endpoint without probing.
C25_ConnectFailoverAndReuse ==
    \A t \in Threads :
        cn[t].pc = "done" =>
            /\ InOrderToFirstAnswer(cn[t])
            /\ (cn[t].ret # None /\ cn[t].probed # << >>)
                  => cn[t].ret[2] = cn[t].probed[Len(cn[t].probed)][1]
            /\ cn[t].raised # << >>
                  => /\ ProbedEps(cn[t].probed) = Endpoints
                     /\ NamesAttempted(cn[t])
                     /\ cn[t].ret = None
                     /\ ~cn[t].wrote
            /\ cn[t].seen # None
                  => (cn[t].ret = cn[t].seen /\ cn[t].probed = << >>)

\* ------------------------------------------ claims on the format dispatch

\* The recognized extensions.
Recognized == {".md", ".markdown", ".docx", ".doc"}

\* This step is caller t beginning get_document(key).
Requests(t, key) ==
    /\ th[t].pc = "idle"
    /\ calls' = calls + 1
    /\ \/ th'[t].pc \in {"stat", "cache_get"} /\ th'[t].key = key
       \/ /\ th'[t].pc = "idle"
          /\ done'[t].op = "get_document"
          /\ done'[t].key = key

\* The request of this step failed as unsupported, before any stat or fetch,
\* and left the cache as it was.
RejectedUnsupported(t) ==
    /\ th'[t].pc = "idle"
    /\ ~done'[t].ok
    /\ done'[t].err = "unsupported"
    /\ od' = od
    /\ conv' = conv

\* Keys with a recognized extension in capitals are not rejected.
CapitalsRecognized(t) ==
    \A key \in {"a.MD", "b.Docx"} :
        Requests(t, key) => ~(th'[t].pc = "idle" /\ done'[t].err = "unsupported")

\* C21 as stated: a request for a key whose lower-cased extension is not
\* recognized fails with the unsupported-format error before any content is
\* fetched and leaves the cache and its order unchanged; .MD and .Docx are
\* recognized.
C21_UnsupportedRejected ==
    [][\A t \in Threads :
         /\ \A key \in Keys \cup BadKeys :
               (Requests(t, key) /\ Lower(Splitext(key)) \notin Recognized)
                  => RejectedUnsupported(t)
         /\ CapitalsRecognized(t)]_vars

\* C21 amended: the same, for a request whose connect() gave a client.
C21_UnsupportedRejectedWhenConnected ==
    [][\A t \in Threads :
         /\ \A key \in Keys \cup BadKeys :
               (/\ Requests(t, key)
                /\ Lower(Splitext(key)) \notin Recognized
                /\ mc'.client # None)
                  => RejectedUnsupported(t)
         /\ \A key \in Keys \cup BadKeys :
               (/\ Requests(t, key)
                /\ Lower(Splitext(key)) \notin Recognized
                /\ mc'.client = None)
                  => (th'[t].pc = "idle" /\ done'[t].err = "connect" /\ od' = od
                      /\ conv' = conv)
         /\ CapitalsRecognized(t)]_vars

\* An unsupported key was rejected while the cache held the document of a
\* key spelled with a capital extension.
C21_Witness ==
    \E t \in Threads :
        /\ done[t].op = "get_document"
        /\ done[t].key = "x.txt"
        /\ done[t].err = "unsupported"
        /\ OdContains(od, "a.MD")

\* A .doc byte string has been converted.
DocConverted == cv.pc = "done" /\ DocType(cv.key) = "doc"

\* The result is what the DOCX handler makes of the bytes.
IsDocxResult(r, data) ==
    r.ok /\ r.text = TextOf(data) /\ r.html = DocxHtml(data)

\* C22: for a .doc input the DOCX handler is attempted first if and only if
\* the bytes begin with the ZIP magic; when the attempt succeeds its result
\* is returned and the legacy handler is not invoked; when it fails the
\* failure is not propagated and the legacy handler is invoked next; bytes
\* without the magic go to the legacy handler only.
C22_DocxAttemptThenLegacy ==
    DocConverted =>
        LET data == cv.data
            r == cv.result
        IN  /\ (r.invoked # << >> /\ r.invoked[1] = "docx") <=> data.pk
            /\ (data.pk /\ data.docx)
                  => (r.invoked = <<"docx">> /\ IsDocxResult(r, data))
            /\ (data.pk /\ ~data.docx)
                  => /\ r.invoked = <<"docx", "legacy">>
                     /\ ~r.ok => r.err # "DOCX"
                     /\ data.legacy = "ok" => (r.ok /\ r.html = PlainTextHtml(r.text))
            /\ ~data.pk => r.invoked = <<"legacy">>

\* Bytes with the magic that the DOCX handler could not read were handed to
\* the legacy handler, which read them.
C22_Witness ==
    /\ DocConverted
    /\ cv.data.pk /\ ~cv.data.docx /\ cv.data.legacy = "ok"
    /\ cv.result.ok
    /\ cv.result.invoked = <<"docx", "legacy">>

\* The legacy handler failed with a tool-invocation error on .doc bytes that
\* the DOCX handler did not convert.
ShellFailure ==
    /\ DocConverted
    /\ cv.data.legacy = "shell"
    /\ ~(cv.data.pk /\ cv.data.docx)

\* The share of printable characters among the first 2000 is at least 60%.
MostlyPrintable(chars) ==
    LET preview == Preview(chars, PreviewLen)
        total == CountOf(preview, {"p", "w", "u", "r", "0", "c"})
    IN  total # 0 /\ CountOf(preview, {"p", "w"}) * 10 >= total * 6

\* The first encoding of the list, if any, whose decoding passes the test.
FirstWhere(Test(_), data) ==
    LET passing == {i \in DOMAIN Encodings : Test(data.dec[Encodings[i]])}
    IN  IF passing = {} THEN 0
        ELSE CHOOSE i \in passing : \A j \in passing : i <= j

\* The test of C23 as stated: the encoding decodes the bytes and the decoded
\* text is mostly printable.
DecodesMostlyPrintable(chars) == chars # Undecodable /\ MostlyPrintable(chars)

DecodesUsableText(chars) ==
    /\ chars # Undecodable
    /\ MostlyPrintable(Normalize(StripNul(chars)))
    /\ \E j \in DOMAIN chars : chars[j][1] \notin {"w", "u", "r", "0"}

AbsoluteHttp(url) ==
    /\ Len(url) >= 3
    /\ LowerPiece(url[1]) \in {"http:", "https:"}
    /\ url[2] = "/"
    /\ url[3] = "/"

\* C24: an image reference, Markdown link or img src, is rewritten to a URL
\* under the public image base if and only if its URL is not an absolute
\* http(s) URL and ends in an image extension or begins with images/,
\* ./images/ or ../images/; every other reference stays untouched.
\* ![x](images/1.png) becomes ![x](http://host/pub/images/1.png) and
\* ![x](http://elsewhere/1.png) is unchanged.
C24_ImageLinksRewritten ==
    rw.pc = "done" =>
        /\ rw.out.rewritten
              <=> /\ ~AbsoluteHttp(rw.url)
                  /\ \/ EndsWithImgExt(LowerUrl(rw.url))
                     \/ StartsWithImages(LowerUrl(rw.url))
        /\ rw.out.rewritten => rw.out.public.base = <<"http:", "/", "/", "host", "/", "pub">>
        /\ (rw.form = "md" /\ rw.url = <<"images", "/", "1.png">>)
              => rw.out.public.segs = << <<"images">>, <<"1.png">> >>
        /\ (rw.form = "md" /\ rw.url = <<"http:", "/", "/", "elsewhere", "/", "1.png">>)
              => ~rw.out.rewritten

\* ------------------------------------- claims on the reconciler's failures

\* The delete calls of the run that ended in one of these ways.
DeletesThat(outcomes) == {i \in DOMAIN sy.dlog : sy.dlog[i][2] \in outcomes}

\* The ids the delete calls of the run were made for, in the order of the
\* calls.
DeletedIds == [i \in DOMAIN sy.dlog |-> sy.dlog[i][1]]

\* C30: each stale id is deleted by its own call; a delete that fails, one
\* that reports not-found included, neither ends the run nor keeps the
\* remaining stale ids from being deleted, and removed is the number of
\* stale ids whose delete succeeded.
C30_DeletesIndependent ==
    (sy.pc = "docs" /\ sy.step1 = "ok") =>
        /\ DeletedIds = StaleIds(sy.existing_map, sy.docs)
        /\ \A i \in DeletesThat({"deleted", "not_found"}) :
              index[sy.dlog[i][1]] = NoRecord
        /\ sy.removed = Cardinality(DeletesThat({"deleted"}))

\* A round of the loop over docs is taken in this step.
DocStep == sy.pc = "docs" /\ sy'.pc = "docs" /\ sy'.i = sy.i + 1

\* The key and the fingerprint of the document the round is for, and what
\* get_document gives for it on the cache and the store as they are.
DocKey == sy.docs[sy.i][1]

DocEtag == sy.docs[sy.i][2]

DocRead == GetDocument(od, store, DocKey, DocEtag, TRUE)

\* The round did not call get_document: it left the cache alone and logged
\* the document as up to date.
NotRead == sy'.log[Len(sy'.log)] = "up_to_date" /\ od' = od

\* The round upserted the record of what get_document gave and counted it.
UpsertedAndCounted ==
    /\ index' = [index EXCEPT ![DocKey] = IndexRecord(DocRead.value)]
    /\ sy'.updated = sy.updated + 1
    /\ sy'.errors = sy.errors

\* C28: a document takes the fast path (no content fetch, no cache access,
\* no upsert, no count, no error) if and only if force is false and its
\* indexed fingerprint equals the one of the listing; with force = true
\* every listed document is read and, when its text is not empty and
\* nothing fails, upserted and counted.
C28_FastPathIffUnforcedAndEqual ==
    [][DocStep =>
         /\ NotRead <=> (~sy.force /\ index[DocKey].etag = DocEtag)
         /\ NotRead => /\ index' = index
                       /\ sy'.updated = sy.updated
                       /\ sy'.errors = sy.errors
         /\ (~NotRead /\ DocRead.ok /\ ~DocRead.value[3][3] /\ ~sy'.failed)
                => UpsertedAndCounted
         /\ ~NotRead => od' = DocRead.od]_vars

\* C28 witness: a forced run read a document whose indexed fingerprint was
\* the one of the listing, upserted it and counted it, after a document
\* without text.
C28_Witness ==
    /\ sy.pc = "docs" /\ sy.force
    /\ \E i \in DOMAIN sy.log :
          /\ sy.log[i] = "indexed"
          /\ sy.index0[sy.docs[i][1]].etag = sy.docs[i][2]
    /\ \E i \in DOMAIN sy.log : sy.log[i] = "blank"
    /\ sy.updated = 1

\* C29: a document whose text is blank is skipped silently: no upsert,
\* updated is not incremented, no per-item error, and the record the index
\* holds for it is left as it is; the loop goes on with the next document.
C29_BlankDocumentSkippedSilently ==
    [][(DocStep /\ ~NotRead /\ DocRead.ok /\ DocRead.value[3][3]) =>
         /\ index' = index
         /\ sy'.updated = sy.updated
         /\ sy'.errors = sy.errors
         /\ sy'.failed = sy.failed
         /\ sy'.log[Len(sy'.log)] = "blank"]_vars

\* C29 witness: the run read a document without text whose record in the
\* index has another fingerprint, and the record is as it was.
C29_Witness ==
    /\ sy.pc = "docs"
    /\ \E i \in DOMAIN sy.log :
          /\ sy.log[i] = "blank"
          /\ index[sy.docs[i][1]] # NoRecord
          /\ index[sy.docs[i][1]].etag # sy.docs[i][2]
          /\ index[sy.docs[i][1]] = sy.index0[sy.docs[i][1]]
    /\ sy.updated = 0 /\ sy.errors = << >>

\* The run made no call to the search backend: it did not come to
\* es_connect, and the index is the one it began with.
SyncMadeNoCall == sy.step1 = "none" /\ sy.log = << >> /\ index = sy.index0

\* The messages sync_elasticsearch and fulltext_search return.
StatusMessages ==
    {"disabled", "no_docs", "connect_failed", "read_failed", "completed",
     "enter_keyword", "not_configured", "unavailable", "no_index",
     "search_failed", "results"}

\* C27: when the backend is not configured, sync and the full-text search
\* make no backend call and return a status message; when it is configured
\* and cannot be connected to or queried, both return a status message and
\* neither raises, whatever the listing and the query.
C27_BackendTroubleGivesMessage ==
    /\ (sy.pc = "done" /\ sy.msg # "abandoned") =>
          /\ sy.msg \in StatusMessages
          /\ ~ES_ENABLED => (sy.msg = "disabled" /\ SyncMadeNoCall)
          /\ (ES_ENABLED /\ sy.step1 = "failed") =>
                (sy.msg \in {"connect_failed", "read_failed"} /\ index = sy.index0)
    /\ fs.pc = "done" =>
          /\ fs.msg \in StatusMessages
          /\ ~ES_ENABLED =>
                (fs.msg \in {"enter_keyword", "not_configured"} /\ fs.es_calls = << >>)
          /\ fs.connect \in {"client_error", "index_error"} =>
                (fs.msg = "unavailable" /\ fs.es_calls = <<"es_connect">>)
          /\ fs.outcome = "not_found" => fs.msg = "no_index"
          /\ fs.outcome = "error" => fs.msg = "search_failed"

\* C27 witness: the backend is configured; a run of the reconciler could
\* not connect (the index could not be made ready, the client was kept),
\* and the search that followed got the kept client and found no index.
C27_Witness ==
    /\ ES_ENABLED
    /\ sy.pc = "done" /\ sy.msg = "connect_failed"
    /\ fs.pc = "done" /\ fs.connect = "kept" /\ fs.outcome = "not_found"
    /\ fs.msg = "no_index"

\* ------------------------------------ claims on an abandoned reconciler run

\* The etag an index holds for a key, None without record.
EtagIn(ix, key) == ix[key].etag

\* The etag the index holds for a key after sync(docs, force=False) has run
\* from the index ix without interruption and without backend failure, on
\* the store as it is: no record for an id outside docs; the record as it
\* was for a document with the etag of the listing, for one that cannot be
\* read and for one without text; the etag get_document gives otherwise.
ExpectedEtag(ix, docs, key) ==
    IF key \notin DocKeys(docs) THEN None
    ELSE LET etag_hint == ListingOf(docs)[key]
             r == GetDocument(<< >>, store, key, etag_hint, TRUE)
         IN  IF EtagIn(ix, key) = etag_hint THEN etag_hint
             ELSE IF ~r.ok THEN EtagIn(ix, key)
             ELSE IF r.value[3][3] THEN EtagIn(ix, key)
             ELSE r.value[1]

\* The run was abandoned.
Abandoned == sy.pc = "done" /\ sy.msg = "abandoned"

\* The run took up an abandoned run of the same listing, the store has not
\* changed since that listing was taken, and both loops of the run are over
\* without backend failure.
ResumedAndCompleted ==
    AllProcessed /\ NoBackendFailure /\ sy.resumed /\ sy.writes1 = writes

\* C26: a run abandoned between two backend operations leaves every
\* document it had upserted in the index, and a complete run of
\* sync(docs, force=False) that follows it with the same listing and no
\* backend failure brings the index to the ids and fingerprints that an
\* uninterrupted run from the original index would have produced.
C26_AbandonedRunResumes ==
    /\ Abandoned =>
          \A i \in DOMAIN sy.log :
              sy.log[i] = "indexed" => /\ index[sy.docs[i][1]] # NoRecord
                                       /\ index[sy.docs[i][1]].content # None
    /\ ResumedAndCompleted =>
          \A k \in Keys : EtagIn(index, k) = ExpectedEtag(sy.origin, sy.docs, k)

\* C26 witness: the abandoned run had deleted a stale id or upserted a
\* document and left a stale id or a document to do; the run that took it
\* up did the rest, a delete and an upsert among it, and found one document
\* up to date.
C26_Witness ==
    /\ ResumedAndCompleted
    /\ sy.index0 # sy.origin
    /\ sy.removed + sy.updated >= 1
    /\ \E i \in DOMAIN sy.log : sy.log[i] = "up_to_date"
    /\ \E k \in DocKeys(sy.docs) : EtagIn(sy.origin, k) # EtagIn(index, k)

\* ------------------------------------------- claims on the degraded .doc

\* C35: a .doc input for which the legacy handler fails with a
\* tool-invocation error, and which no encoding of the list decodes with at
\* least 60% printable characters, is a conversion failure: the conversion
\* of get_document raises (so nothing is cached and the reconciler records
\* a per-item error for the key).
C35_UndecodableShellFailureRaises ==
    (ShellFailure /\ FirstWhere(DecodesMostlyPrintable, cv.data) = 0) =>
        ~cv.result.ok

\* ------------------------------------------- claims on the end of a run

\* The run ends in this step with the message of a completed sync.
FinishStep == sy.pc = "docs" /\ sy'.pc = "done" /\ sy'.msg = "completed"

\* C31: a run issues an index refresh if and only if updated > 0 or
\* removed > 0, issues it after its last delete and its last upsert, and a
\* failure of the refresh changes neither the counts nor the per-item
\* errors of the outcome.
C31_RefreshIffChangedAndLast ==
    [][/\ FinishStep =>
             /\ sy'.refresh_called <=> (sy.updated > 0 \/ sy.removed > 0)
             /\ sy.stale = << >> /\ sy.i > Len(sy.docs)
             /\ index' = index
             /\ sy'.updated = sy.updated /\ sy'.removed = sy.removed
             /\ sy'.errors = sy.errors
       /\ sy'.refresh_called => (FinishStep \/ (sy.refresh_called /\ index' = index))
       /\ (sy.pc # "done" /\ ~FinishStep) => ~sy'.refresh_called]_vars

\* C31 witness: the run removed a stale id and upserted nothing, one
\* document failed, and the refresh it issued failed: the outcome has the
\* count and the error.
C31_Witness ==
    /\ sy.pc = "done" /\ sy.msg = "completed"
    /\ sy.refresh_called /\ ~sy.refreshed
    /\ sy.updated = 0 /\ sy.removed = 1
    /\ Len(sy.errors) = 1

\* The ids whose record the step removes from the index, and the ids whose
\* record it writes.
DeletedInStep == {k \in Keys : index[k] # NoRecord /\ index'[k] = NoRecord}

UpsertedInStep == {k \in Keys : index'[k] # NoRecord /\ index'[k] # index[k]}

\* The ids the run has asked the backend to delete so far.
AskedToDelete == {sy.dlog[i][1] : i \in DOMAIN sy.dlog}

\* C32: in every run the ids deleted and the ids upserted are disjoint: the
\* run never deletes a key of the listing it was given, never upserts an id
\* that is not a key of that listing, and issues every delete before its
\* first upsert.
C32_DeletesAndUpsertsDisjoint ==
    [][/\ DeletedInStep \cap DocKeys(sy.docs) = {}
       /\ UpsertedInStep \subseteq DocKeys(sy.docs) \ AskedToDelete
       /\ DeletedInStep # {} => (sy.pc = "delete" /\ sy.log = << >>)
       /\ UpsertedInStep # {} => (sy.pc = "docs" /\ sy.stale = << >>)
       /\ Len(sy'.dlog) > Len(sy.dlog) =>
             /\ sy.pc = "delete" /\ sy.log = << >>
             /\ Head(sy.stale) \notin DocKeys(sy.docs)]_vars

\* C32 witness: the run deleted a stale id and then upserted a document of
\* its listing.
C32_Witness ==
    /\ sy.pc = "docs"
    /\ \E i \in DOMAIN sy.dlog : sy.dlog[i][2] = "deleted"
    /\ \E i \in DOMAIN sy.log : sy.log[i] = "indexed"
    /\ Len(sy.docs) >= 2

\* C33: when sync is given an empty listing and the index holds records,
\* every indexed id is deleted: removed is the number of records the index
\* held and the index is empty after the run.
C33_EmptyListingEmptiesIndex ==
    (ES_ENABLED /\ SyncCompleted /\ sy.docs = << >> /\ sy.index0 # NoIndex) =>
        /\ index = NoIndex
        /\ sy.removed = Cardinality(IdsOf(sy.index0))

\* The positions of the listing that the loop over docs logged in one of
\* these ways.
LoggedAs(dids) == {i \in DOMAIN sy.log : sy.log[i] \in dids}

\* C37: accounting of a completed run: every document of the listing falls
\* in exactly one of four outcomes (skipped on the fast path, skipped for
\* empty text, upserted and counted in updated, recorded in the per-item
\* errors), so the four numbers sum to the number of listed documents, and
\* updated is the number of upsert calls that returned without error.
C37_FourOutcomesAccountForListing ==
    (AllProcessed \/ (sy.pc = "done" /\ sy.msg = "completed")) =>
        /\ Len(sy.log) = Len(sy.docs)
        /\ Cardinality(LoggedAs({"up_to_date"})) + Cardinality(LoggedAs({"blank"}))
              + sy.updated + Len(sy.errors) = Len(sy.docs)
        /\ sy.updated = Cardinality(LoggedAs({"indexed"}))
        /\ Len(sy.errors) = Cardinality(LoggedAs({"read_error", "index_error"}))
        /\ \A i \in LoggedAs({"indexed"}) : index[sy.docs[i][1]] # NoRecord
        /\ \A i \in LoggedAs({"read_error", "index_error"}) :
              \E j \in DOMAIN sy.errors : sy.errors[j][1] = sy.docs[i][1]

\* C37 witness: a completed run over three documents: one was up to date,
\* one was upserted and one is in the per-item errors.
C37_Witness ==
    /\ sy.pc = "done" /\ sy.msg = "completed"
    /\ Len(sy.docs) = 3
    /\ LoggedAs({"up_to_date"}) # {}
    /\ sy.updated = 1
    /\ Len(sy.errors) = 1

\* The run whose search found no index is still going or completed, with an
\* empty map of indexed ids, no stale id, no delete call and no skip on an
\* equal etag.
MissingIndexTakenAsEmpty ==
    /\ sy.step1 = "ok"
    /\ sy.msg \in {"none", "completed", "abandoned"}
    /\ sy.pc \in {"delete", "docs"} => sy.existing_map = NoExisting
    /\ sy.stale = << >> /\ sy.dlog = << >> /\ sy.removed = 0
    /\ \A i \in DOMAIN sy.log : sy.log[i] # "up_to_date"
    /\ (sy.pc = "done" /\ sy.msg = "completed") => Len(sy.log) = Len(sy.docs)

\* C40: when the search of step 1 fails with a not-found error (the index
\* does not exist), the run does not abort: it goes on with an empty set of
\* indexed ids, deletes nothing, and reads every listed document and calls
\* es.index for each whose text is not empty.
C40_MissingIndexIsEmptyIndex ==
    [][/\ sy'.absent => MissingIndexTakenAsEmpty'
       /\ (DocStep /\ sy.absent) =>
             /\ ~NotRead
             /\ sy'.log[Len(sy'.log)] \in {"indexed", "index_error"}
                   <=> (DocRead.ok /\ ~DocRead.value[3][3])]_vars

\* C40 witness: the search found no index; the run went through its three
\* documents, upserted two of them and completed.
C40_Witness ==
    /\ sy.absent
    /\ sy.pc = "done" /\ sy.msg = "completed"
    /\ Len(sy.docs) = 3 /\ sy.updated = 2 /\ sy.removed = 0

\* ------------------------------------------------------ claims on es_connect

\* A caller holds a client that es_connect returned: the run of the
\* reconciler is past es_connect, or the search of fulltext_search was made.
ClientReturned ==
    \/ sy.pc \in {"search", "delete", "docs"}
    \/ (sy.pc = "done" /\ sy.step1 = "ok")
    \/ (fs.pc = "done" /\ Len(fs.es_calls) = 2)

\* C38: whenever es_connect returns a client, the index-existence check
\* (and the creation of a missing index) has completed without error for
\* that client; after an es_connect call that failed while ensuring the
\* index, a later call does not return a client without ensuring the index
\* again.
C38_ReturnedClientHasIndexEnsured ==
    ClientReturned => ec = "ensured"

\* --------------------------------------------- claims on the run's message

\* C34: the outcome returned by sync carries every per-item failure of the
\* run as a (key, message) entry, in the order the documents were
\* processed, whatever the number of failures.
C34_OutcomeCarriesEveryError ==
    om.pc = "done" => om.report.errors = om.errors

\* ------------------------------------- claims on a failing get_document

\* The entries of the cache with their values, whatever their order.
Entries(d) == {d[i] : i \in DOMAIN d}

\* The caller is in get_document before DOC_CACHE.set: at the stat, in the
\* cache lookup, or at the fetch and the conversion.
BeforeSet(t) == th[t].pc \in {"stat", "cache_get", "get_move", "get_ret", "fetch"}

\* The call of the caller fails in this step at get_object or in the
\* conversion.
FailsAfterLookup(t) ==
    th[t].pc = "fetch" /\ th'[t].pc = "idle" /\ ~done'[t].ok

\* C39: when get_document fails after the cache lookup (the content cannot
\* be fetched, or the conversion fails), the cache holds the same entries
\* with the same values as before the call: no entry is created for the
\* key, and an entry of the key with an older fingerprint is neither
\* overwritten nor removed. (The lookup moves such an entry to the end of
\* the order.)
C39_FailureLeavesCacheEntries ==
    [][\A t \in Threads :
          /\ (BeforeSet(t) /\ th'[t] # th[t]) => Entries(od') = Entries(od)
          /\ FailsAfterLookup(t) =>
                /\ od' = od
                /\ done'[t].err \in {"get_object", "DOCX", "DOC", "textract"}
                /\ th[t].etag # ETagOf(NoObject) =>
                      \A i \in DOMAIN od' :
                          od'[i][1] = th[t].key => od'[i][2][1] # th[t].etag]_vars

\* C39 witness: the call failed after the lookup, and the cache still holds
\* the entry of the key with the older fingerprint, now the most recently
\* used of two entries.
C39_Witness ==
    /\ done["t1"].op = "get_document" /\ ~done["t1"].ok
    /\ done["t1"].err \in {"get_object", "DOCX", "DOC"}
    /\ th["t1"].pc = "idle"
    /\ Len(od) = 2
    /\ od[2][1] = done["t1"].key
    /\ od[2][2][1] # done["t1"].etag

\* The attempt with this label hands the caller's parameters to the backend:
\* in the call itself, or through a client that options bound with them.
CarriesParams(label) ==
    \/ label[2] \in {"native", "params", "query_params", "perform_request"}
    \/ label[1] \in {"options_params", "options_query_params"}

\* C36: a response the shim returns for a search with non-empty parameters
\* comes from an attempt that carried the parameters to the backend.
C36_ReturnedResponseCarriedParams ==
    (sh.with_params /\ sh.pc = "done" /\ sh.result = "returned")
        => CarriesParams(sh.by)

====
